---- MODULE Spec2Model ----
(***************************************************************************)
(* A model of the grid map of src/src/core/graphics/emojiGrid.js: the      *)
(* closure-based Layer (createGridLayer) and GridMap (createGridMap), with *)
(* their serialisation (exportData / importData).                          *)
(*                                                                         *)
(* Both factories return an object literal whose width/height (and         *)
(* cellSize) properties are copied from the factory's parameters when the  *)
(* object is built, while every method reads and writes the parameters     *)
(* themselves (the closure variables).  The model keeps the two apart:     *)
(* width/height/cellSize are the closure variables, objWidth/objHeight/    *)
(* objCellSize the properties of the returned object.                      *)
(*                                                                         *)
(* Coordinates are 0-based as in the source; a cells array is a sequence   *)
(* of rows, so the source's cells[y][x] is cells[y + 1][x + 1] here.       *)
(*                                                                         *)
(* The module also models the GridRenderer and the animator of the same    *)
(* file, the composer and its UI of src/src/core/graphics/emojiComposer.js *)
(* and the recently-used list of the emoji picker.                         *)
(***************************************************************************)
EXTENDS Integers, Sequences, FiniteSets, TLC

\* Largest width/height of a layer or map that is explored.
MaxDim == 2
\* Largest cellSize that is explored.
MaxCellSize == 2
\* Number of operations applied in one behaviour.
MaxOps == 2

Min(a, b) == IF a < b THEN a ELSE b
Max(a, b) == IF a > b THEN a ELSE b

\* GRID_LAYER_TYPE, in the insertion order of the `layers` object literal,
\* which is the order Object.values / Object.entries enumerate.
GRID_LAYER_TYPE == <<"background", "collision", "event", "sprite", "gui">>
LayerTypes == {GRID_LAYER_TYPE[i] : i \in 1..Len(GRID_LAYER_TYPE)}

\* The empty marker (the source's '').
EMPTY == ""
\* options.defaultBackgroundEmoji || (white square), written in ASCII.
DefaultBackgroundEmoji == "U+2B1C"
\* Markers written by the explored edits.
Markers == {EMPTY, "a"}
\* A hole of a sparse cells array in an imported record (undefined).
UNDEFINED == "<undefined>"

\* Coordinates tried by the edits: one cell beyond every edge.
Coords == (0 - 1)..MaxDim
\* Coordinates at which the claims read a layer or map.
Probe == (0 - 1)..(MaxDim + 1)
Dims == 1..MaxDim

----------------------------------------------------------------------------
(* Layer: createGridLayer                                                  *)

\* A cells array built with its rows and columns exchanged.
NewCellsTransposed(w, h, fill) == [y \in 1..w |-> [x \in 1..h |-> fill]]

\* Array(height).fill().map(() => Array(width).fill(defaultEmoji))
NewCells(w, h, fill) == [y \in 1..h |-> [x \in 1..w |-> fill]]

\* The error createGridLayer throws, if any: the dimensions are tested first,
\* then Object.values(GRID_LAYER_TYPE).includes(type).
createGridLayerError(width, height, type) ==
  IF width <= 0 \/ height <= 0 THEN "InvalidDimension"
  ELSE IF type \notin LayerTypes THEN "InvalidLayerKind"
  ELSE "none"

createGridLayer(width, height, type, defaultEmoji) ==
  [type       |-> type,
   width      |-> width,
   height     |-> height,
   objWidth   |-> width,
   objHeight  |-> height,
   cells      |-> NewCells(width, height, defaultEmoji),
   properties |-> [visible |-> TRUE, opacity |-> 1, name |-> type]]

InBounds(l, x, y) == x >= 0 /\ x < l.width /\ y >= 0 /\ y < l.height

\* A getCell that clamps an outside coordinate to the nearest cell.
getCellClamped(l, x, y) ==
  l.cells[Max(0, Min(l.height - 1, y)) + 1][Max(0, Min(l.width - 1, x)) + 1]

getCell(l, x, y) == IF InBounds(l, x, y) THEN l.cells[y + 1][x + 1] ELSE EMPTY

\* setCell's return value with the lower bounds forgotten.
setCellRetNoLowerBound(l, x, y) == x < l.width /\ y < l.height

\* The return value of setCell.
setCellRet(l, x, y) == InBounds(l, x, y)

\* setCell guarded by the marker's truthiness: an empty marker is not written.
setCellSkipEmpty(l, x, y, emoji) ==
  IF InBounds(l, x, y) /\ emoji # EMPTY
  THEN [l EXCEPT !.cells[y + 1][x + 1] = emoji]
  ELSE l

\* The layer after setCell.
setCell(l, x, y, emoji) ==
  IF InBounds(l, x, y)
  THEN [l EXCEPT !.cells[y + 1][x + 1] = emoji]
  ELSE l

\* A fillRect that takes (startX, startY) for the top-left corner without
\* normalising the two corners.
fillRectNoNormalize(l, startX, startY, endX, endY, emoji) ==
  LET minX == Max(0, startX)
      maxX == Min(l.width - 1, endX)
      minY == Max(0, startY)
      maxY == Min(l.height - 1, endY)
  IN [l EXCEPT !.cells =
        [y \in 1..Len(l.cells) |->
          [x \in 1..Len(l.cells[y]) |->
            IF (y - 1) >= minY /\ (y - 1) <= maxY /\ (x - 1) >= minX /\ (x - 1) <= maxX
            THEN emoji
            ELSE l.cells[y][x]]]]

fillRect(l, startX, startY, endX, endY, emoji) ==
  LET minX == Max(0, Min(startX, endX))
      maxX == Min(l.width - 1, Max(startX, endX))
      minY == Max(0, Min(startY, endY))
      maxY == Min(l.height - 1, Max(startY, endY))
  IN [l EXCEPT !.cells =
        [y \in 1..Len(l.cells) |->
          [x \in 1..Len(l.cells[y]) |->
            IF (y - 1) >= minY /\ (y - 1) <= maxY /\ (x - 1) >= minX /\ (x - 1) <= maxX
            THEN emoji
            ELSE l.cells[y][x]]]]

\* A clear that stops after the first row.
clearFirstRow(l) ==
  [l EXCEPT !.cells =
     [y \in 1..Len(l.cells) |->
       [x \in 1..Len(l.cells[y]) |->
         IF (y - 1) < 1 /\ (x - 1) < l.width THEN EMPTY ELSE l.cells[y][x]]]]

clear(l) ==
  [l EXCEPT !.cells =
     [y \in 1..Len(l.cells) |->
       [x \in 1..Len(l.cells[y]) |->
         IF (y - 1) < l.height /\ (x - 1) < l.width THEN EMPTY ELSE l.cells[y][x]]]]

\* properties[key] = value, on a layer's or a map's property bag.
setProperty(properties, key, value) ==
  [k \in (DOMAIN properties) \cup {key} |-> IF k = key THEN value ELSE properties[k]]

\* A guard that looks at the width only.
resizeThrowsWidthOnly(newWidth, newHeight) == newWidth <= 0

\* Whether resize throws.
resizeThrows(newWidth, newHeight) == newWidth <= 0 \/ newHeight <= 0

\* A resize whose copy loops stop one column and one row early.
layerResizeOffByOne(l, newWidth, newHeight) ==
  LET copyWidth  == Min(l.width, newWidth)
      copyHeight == Min(l.height, newHeight)
  IN [l EXCEPT
        !.cells  = [y \in 1..newHeight |->
                     [x \in 1..newWidth |->
                       IF y < copyHeight /\ x < copyWidth THEN l.cells[y][x] ELSE EMPTY]],
        !.width  = newWidth,
        !.height = newHeight]

\* The layer after a resize that does not throw.
layerResize(l, newWidth, newHeight) ==
  LET copyWidth  == Min(l.width, newWidth)
      copyHeight == Min(l.height, newHeight)
  IN [l EXCEPT
        !.cells  = [y \in 1..newHeight |->
                     [x \in 1..newWidth |->
                       IF y <= copyHeight /\ x <= copyWidth THEN l.cells[y][x] ELSE EMPTY]],
        !.width  = newWidth,
        !.height = newHeight]

----------------------------------------------------------------------------
(* GridMap: createGridMap                                                  *)

\* A guard that forgets the cell size.
createGridMapThrowsNoCellSize(width, height, cellSize) == width <= 0 \/ height <= 0

\* Whether createGridMap throws.
createGridMapThrows(width, height, cellSize) ==
  width <= 0 \/ height <= 0 \/ cellSize <= 0

createGridMap(width, height, cellSize) ==
  [width       |-> width,
   height      |-> height,
   cellSize    |-> cellSize,
   objWidth    |-> width,
   objHeight   |-> height,
   objCellSize |-> cellSize,
   layers      |-> [t \in LayerTypes |->
                     createGridLayer(width, height, t,
                       IF t = "background" THEN DefaultBackgroundEmoji ELSE EMPTY)],
   properties  |-> [name |-> "New Map", backgroundColor |-> "#FFFFFF",
                    gridColor |-> "#CCCCCC", showGrid |-> TRUE],
   cameraX     |-> 0,
   cameraY     |-> 0]

getCellContent(m, x, y) == [t \in LayerTypes |-> getCell(m.layers[t], x, y)]

\* The map after a resize that does not throw.
mapResize(m, newWidth, newHeight) ==
  [m EXCEPT
     !.layers = [t \in LayerTypes |-> layerResize(m.layers[t], newWidth, newHeight)],
     !.width  = newWidth,
     !.height = newHeight]

\* Property names that `layers`, an object literal, inherits from
\* Object.prototype: layers[name] is a function for each of them.
ObjectPrototypeKeys == {"constructor", "toString"}

\* !layers[type]: the lookup finds neither an own nor an inherited property.
getLayerThrows(m, type) == type \notin DOMAIN m.layers /\ type \notin ObjectPrototypeKeys

\* getLayer(type) when it does not throw: layers[type], the layer or the
\* inherited property.
getLayer(m, type) ==
  IF type \in DOMAIN m.layers THEN m.layers[type] ELSE [inherited |-> type]

\* Layers enumerated in the alphabetical order of their keys.
getAllLayersSorted(m) ==
  LET sorted == <<"background", "collision", "event", "gui", "sprite">>
  IN [i \in 1..Len(sorted) |-> m.layers[sorted[i]]]

\* getAllLayers(): Object.values(layers).
getAllLayers(m) == [i \in 1..Len(GRID_LAYER_TYPE) |-> m.layers[GRID_LAYER_TYPE[i]]]

\* setCamera(x, y)
setCamera(m, x, y) == [m EXCEPT !.cameraX = x, !.cameraY = y]

\* getCamera()
getCamera(m) == [x |-> m.cameraX, y |-> m.cameraY]

\* A moveCamera that keeps the camera at or right of and below the origin.
moveCameraClamped(m, deltaX, deltaY) ==
  [m EXCEPT !.cameraX = Max(0, @ + deltaX), !.cameraY = Max(0, @ + deltaY)]

\* moveCamera(deltaX, deltaY)
moveCamera(m, deltaX, deltaY) ==
  [m EXCEPT !.cameraX = @ + deltaX, !.cameraY = @ + deltaY]

\* Math.floor(a / b) and Math.ceil(a / b) for integers a and b > 0.
floorDiv(a, b) == a \div b
ceilDiv(a, b) == 0 - ((0 - a) \div b)

\* Screen coordinates are kept in half pixels, so that the cellSize / 2 of
\* gridToScreen is an integer: a screen position (sx, sy) is the pair
\* <<2 * sx, 2 * sy>>.
\* gridToScreen(gridX, gridY): the centre of the cell.
gridToScreen(m, gridX, gridY) ==
  <<(2 * gridX * m.cellSize) + m.cellSize - (2 * m.cameraX),
    (2 * gridY * m.cellSize) + m.cellSize - (2 * m.cameraY)>>

\* A screenToGrid that rounds toward zero instead of toward minus infinity.
screenToGridTruncates(m, screenX2, screenY2) ==
  LET trunc(a, b) == IF a >= 0 THEN a \div b ELSE 0 - ((0 - a) \div b)
  IN <<trunc(screenX2 + (2 * m.cameraX), 2 * m.cellSize),
       trunc(screenY2 + (2 * m.cameraY), 2 * m.cellSize)>>

\* screenToGrid(screenX, screenY) of the screen position given in half pixels:
\* Math.floor((screenX + cameraX) / cellSize).
screenToGrid(m, screenX2, screenY2) ==
  <<floorDiv(screenX2 + (2 * m.cameraX), 2 * m.cellSize),
    floorDiv(screenY2 + (2 * m.cameraY), 2 * m.cellSize)>>

\* The `this` of snapToGrid.  snapToGrid is an arrow function in the object
\* literal that createGridMap, itself an arrow function, returns: its `this`
\* is the `this` of the module's top level, which is undefined, and not the
\* map the function is called on.
snapToGridThis == [isUndefined |-> TRUE]

\* snapToGrid(screenX, screenY) throws a TypeError when this.screenToGrid
\* cannot be read.
snapToGridThrows(m, screenX2, screenY2) == snapToGridThis.isUndefined

\* snapToGrid(screenX, screenY): this.gridToScreen of this.screenToGrid;
\* <<>> when the call throws.
snapToGrid(m, screenX2, screenY2) ==
  IF snapToGridThrows(m, screenX2, screenY2)
  THEN <<>>
  ELSE LET gridCoords == screenToGrid(m, screenX2, screenY2)
       IN gridToScreen(m, gridCoords[1], gridCoords[2])

\* A serialised map record.  `present` is FALSE for a null/undefined record;
\* width, height and cellSize are 0 when the field is missing (or 0: the guard
\* of importData tests them for truthiness); hasLayers, hasProperties and
\* hasCells tell whether the field exists.  A layer's cells are either the
\* live cells array of the exporting map's layer (alias = TRUE: exportData
\* stores layer.cells itself) or a literal array of rows (alias = FALSE).
exportData(m) ==
  [present       |-> TRUE,
   width         |-> m.width,
   height        |-> m.height,
   cellSize      |-> m.cellSize,
   hasProperties |-> TRUE,
   properties    |-> m.properties,
   hasLayers     |-> TRUE,
   layers        |-> [t \in LayerTypes |->
                       [hasCells      |-> TRUE,
                        alias         |-> TRUE,
                        cells         |-> << >>,
                        hasProperties |-> TRUE,
                        properties    |-> m.layers[t].properties]]]

\* The cells a record's layer entry holds, read now: `live` is the exporting
\* map's current layers.
RecordCells(ld, t, live) == IF ld.alias THEN live[t].cells ELSE ld.cells

\* layerData.cells[y] && layerData.cells[y][x], UNDEFINED when there is no such
\* row or no such element.
SourceCell(src, x, y) ==
  IF y + 1 <= Len(src) /\ x + 1 <= Len(src[y + 1]) THEN src[y + 1][x + 1] ELSE UNDEFINED

\* Object.assign(target, source) on property bags.
assign(target, source) ==
  [k \in (DOMAIN target) \cup (DOMAIN source) |->
     IF k \in DOMAIN source THEN source[k] ELSE target[k]]

\* The guard of importData without its cellSize test.
importRejectsNoCellSize(data) ==
  \/ ~data.present
  \/ data.width = 0
  \/ data.height = 0
  \/ ~data.hasLayers

\* The guard of importData: the record is rejected.
importRejects(data) ==
  \/ ~data.present
  \/ data.width = 0
  \/ data.height = 0
  \/ data.cellSize = 0
  \/ ~data.hasLayers

\* The layer kinds of a record that the forEach of importData updates.
importedTypes(m, data) ==
  {t \in DOMAIN data.layers : t \in LayerTypes /\ data.layers[t].hasCells}

\* The resize guard of importData comparing the width only.
importNeedsResizeWidthOnly(l, width, height) == l.objWidth # width

\* The layer resize inside importData is guarded by the properties of the
\* layer object, not by the layer's current dimensions.
importNeedsResize(l, width, height) == l.objWidth # width \/ l.objHeight # height

\* An import that replaces instead of merging: a cell the record does not
\* define is forced empty.
importLayerOverwrite(l, ld, width, height, src, own) ==
  LET l1 == IF importNeedsResize(l, width, height) THEN layerResize(l, width, height) ELSE l
      s  == IF ld.alias /\ own THEN l1.cells ELSE src
      l2 == [l1 EXCEPT !.cells =
               [y \in 1..Len(l1.cells) |->
                 [x \in 1..Len(l1.cells[y]) |->
                   IF (y - 1) < height /\ (x - 1) < width
                   THEN (IF SourceCell(s, x - 1, y - 1) # UNDEFINED
                         THEN SourceCell(s, x - 1, y - 1) ELSE EMPTY)
                   ELSE l1.cells[y][x]]]]
  IN IF ld.hasProperties
     THEN [l2 EXCEPT !.properties = assign(l2.properties, ld.properties)]
     ELSE l2

\* One iteration of the forEach of importData, for a layer it updates.  `own`
\* says that the record's aliased cells are this very layer's cells array.
importLayer(l, ld, width, height, src, own) ==
  LET l1 == IF importNeedsResize(l, width, height) THEN layerResize(l, width, height) ELSE l
      s  == IF ld.alias /\ own THEN l1.cells ELSE src
      l2 == [l1 EXCEPT !.cells =
               [y \in 1..Len(l1.cells) |->
                 [x \in 1..Len(l1.cells[y]) |->
                   IF (y - 1) < height /\ (x - 1) < width
                        /\ SourceCell(s, x - 1, y - 1) # UNDEFINED
                   THEN SourceCell(s, x - 1, y - 1)
                   ELSE l1.cells[y][x]]]]
  IN IF ld.hasProperties
     THEN [l2 EXCEPT !.properties = assign(l2.properties, ld.properties)]
     ELSE l2

\* importData throws: a layer it updates is resized to a non-positive size.
importThrows(m, data) ==
  /\ ~importRejects(data)
  /\ resizeThrows(data.width, data.height)
  /\ \E t \in importedTypes(m, data) :
       importNeedsResize(m.layers[t], data.width, data.height)

\* The map after importData(data); `live` as in RecordCells, `own` TRUE when
\* the record was exported by this map.  When the call throws, the assignments
\* before the forEach have happened and no layer has been updated (the first
\* layer to be resized throws).
importData(m, data, live, own) ==
  IF importRejects(data) THEN m
  ELSE
    LET m1 == [m EXCEPT
                 !.width      = data.width,
                 !.height     = data.height,
                 !.cellSize   = data.cellSize,
                 !.properties = IF data.hasProperties
                                THEN assign(m.properties, data.properties)
                                ELSE m.properties]
    IN IF importThrows(m, data) THEN m1
       ELSE [m1 EXCEPT !.layers =
               [t \in LayerTypes |->
                  IF t \in importedTypes(m, data)
                  THEN importLayer(m.layers[t], data.layers[t], data.width, data.height,
                                   RecordCells(data.layers[t], t, live), own)
                  ELSE m.layers[t]]]

\* The value importData returns (or that it throws).
importRet(m, data) ==
  IF importRejects(data) THEN "false"
  ELSE IF importThrows(m, data) THEN "throw"
  ELSE "true"

----------------------------------------------------------------------------
(* GridRenderer: createGridRenderer, over a rasterizer that provides        *)
(* renderEmoji and getContext; the viewport is ctx.canvas.width x height.   *)

\* The visible range of renderGridMap, clamped to the map: computed from the
\* cellSize, width and height properties of the gridMap object and from
\* getCamera().
visibleRange(m, vw, vh) ==
  [startCol |-> Max(0, floorDiv(getCamera(m).x, m.objCellSize)),
   startRow |-> Max(0, floorDiv(getCamera(m).y, m.objCellSize)),
   endCol   |-> Min(m.objWidth - 1, ceilDiv(getCamera(m).x + vw, m.objCellSize)),
   endRow   |-> Min(m.objHeight - 1, ceilDiv(getCamera(m).y + vh, m.objCellSize))]

\* The cells of the range in the order of the two nested loops: rows from
\* startRow, and in each row the columns from startCol.
cellsInOrder(r) ==
  LET nc == Max(0, r.endCol - r.startCol + 1)
      nr == Max(0, r.endRow - r.startRow + 1)
  IN [k \in 1..(nc * nr) |->
        [x |-> r.startCol + ((k - 1) % nc), y |-> r.startRow + ((k - 1) \div nc)]]

\* A layer order that paints the interface first.
layerOrderReversed == <<"gui", "sprite", "event", "collision", "background">>

\* The layerOrder array of renderGridMap.
layerOrder == <<"background", "collision", "event", "sprite", "gui">>

\* A paint call: emojiRenderer.renderEmoji(emoji, sx, sy, emojiSize), with
\* the layer and the cell it was issued for.
PaintCall(m, t, x, y) ==
  [t     |-> t,
   x     |-> x,
   y     |-> y,
   emoji |-> getCell(m.layers[t], x, y),
   sx    |-> gridToScreen(m, x, y)[1],
   sy    |-> gridToScreen(m, x, y)[2]]

\* The paint calls of one iteration of layerOrder.forEach: none for a layer
\* that is not visible, else one per cell of the range with a truthy marker.
layerPaints(m, t, r) ==
  IF m.layers[t].properties.visible # TRUE THEN << >>
  ELSE SelectSeq([k \in DOMAIN cellsInOrder(r) |->
                    PaintCall(m, t, cellsInOrder(r)[k].x, cellsInOrder(r)[k].y)],
                 LAMBDA c : c.emoji # EMPTY)

RECURSIVE paintsFrom(_, _, _)
\* The paint calls of the layers from position i of layerOrder on.
paintsFrom(m, r, i) ==
  IF i > Len(layerOrder) THEN << >>
  ELSE layerPaints(m, layerOrder[i], r) \o paintsFrom(m, r, i + 1)

\* The cells renderGridMap reads with layer.getCell.
cellsRead(m, r) ==
  {<<t, x, y>> \in LayerTypes \X (r.startCol..r.endCol) \X (r.startRow..r.endRow) :
     m.layers[t].properties.visible = TRUE}

\* The frame of renderGridMap(gridMap, startX, startY, emojiSize) on a
\* vw x vh canvas, with the gridMap as the call leaves it: the number of
\* background fills and of grid-line strokes, the cells read and the paint
\* calls in the order they are issued.
renderGridMapFrame(m, vw, vh) ==
  LET r == visibleRange(m, vw, vh)
  IN [map     |-> m,
      fills   |-> 1,
      strokes |-> IF m.properties.showGrid = TRUE
                  THEN Max(0, r.endCol + 2 - r.startCol) + Max(0, r.endRow + 2 - r.startRow)
                  ELSE 0,
      reads   |-> cellsRead(m, r),
      paints  |-> paintsFrom(m, r, 1)]

\* A renderGridMap that scrolls the map back to the origin.
renderGridMapResetsCamera(m, vw, vh) ==
  [renderGridMapFrame(m, vw, vh) EXCEPT !.map = setCamera(m, 0, 0)]

\* renderGridMap
renderGridMap(m, vw, vh) == renderGridMapFrame(m, vw, vh)

\* renderHighlightedCell(gridMap, gridX, gridY, emojiSize): nothing when the
\* cell is outside the width and height properties of the gridMap object,
\* else one fill and a paint call for every visible layer with a truthy
\* marker at the cell, in the order of Object.entries(content).
renderHighlightedCell(m, gridX, gridY) ==
  IF gridX < 0 \/ gridX >= m.objWidth \/ gridY < 0 \/ gridY >= m.objHeight
  THEN [map |-> m, fills |-> 0, strokes |-> 0, reads |-> {}, paints |-> << >>]
  ELSE [map     |-> m,
        fills   |-> 1,
        strokes |-> 0,
        reads   |-> {<<t, gridX, gridY>> : t \in LayerTypes},
        paints  |-> SelectSeq([i \in 1..Len(GRID_LAYER_TYPE) |->
                                 PaintCall(m, GRID_LAYER_TYPE[i], gridX, gridY)],
                              LAMBDA c : c.emoji # EMPTY
                                           /\ m.layers[c.t].properties.visible = TRUE)]

\* renderSelectionRect(gridMap, startGridX, startGridY, endGridX, endGridY):
\* one fillRect and one strokeRect, no cell read.
renderSelectionRect(m, startGridX, startGridY, endGridX, endGridY) ==
  [map |-> m, fills |-> 1, strokes |-> 1, reads |-> {}, paints |-> << >>]

----------------------------------------------------------------------------
(* GridRenderer: createGridRenderer                                        *)

\* The emoji renderer handed to createGridRenderer: null, or an object that
\* has or lacks the methods renderEmoji and getContext.
Rasterizer(isNull, renderEmoji, getContext) ==
  [isNull |-> isNull, renderEmoji |-> renderEmoji, getContext |-> getContext]

\* A rasterizer that offers both methods.
ExternalRasterizer == Rasterizer(FALSE, TRUE, TRUE)

Rasterizers ==
  {Rasterizer(TRUE, FALSE, FALSE)}
    \cup {Rasterizer(FALSE, r, g) : r \in BOOLEAN, g \in BOOLEAN}

\* A construction that only looks for renderEmoji and asks for the context
\* when it first renders.
createGridRendererThrowsLazyContext(emojiRenderer) ==
  emojiRenderer.isNull \/ ~emojiRenderer.renderEmoji

\* Whether createGridRenderer throws: the Error of its validation, or the
\* TypeError of emojiRenderer.getContext() when there is no such method.
createGridRendererThrows(emojiRenderer) ==
  \/ emojiRenderer.isNull \/ ~emojiRenderer.renderEmoji
  \/ ~emojiRenderer.getContext

\* The renderer returned by createGridRenderer, which keeps the emoji
\* renderer in its closure.
createGridRenderer(emojiRenderer) == [built |-> TRUE, emojiRenderer |-> emojiRenderer]

\* No renderer has been constructed.
NoGridRenderer == [built |-> FALSE, emojiRenderer |-> Rasterizer(TRUE, FALSE, FALSE)]

\* Whether renderGridMap and renderSelectionRect throw: their first statement
\* calls emojiRenderer.getContext(); nothing after it depends on the camera
\* or on the coordinates in a way that can throw.
renderThrows(g) == ~g.emojiRenderer.getContext

\* Whether renderHighlightedCell throws: it returns before it asks for the
\* context when the cell is outside the map object's width and height.
renderHighlightedCellThrows(g, m, gridX, gridY) ==
  /\ ~(gridX < 0 \/ gridX >= m.objWidth \/ gridY < 0 \/ gridY >= m.objHeight)
  /\ renderThrows(g)

----------------------------------------------------------------------------
(* Animator: createEmojiAnimator                                           *)

\* The object createEmojiRenderer returns: it has renderEmoji and no
\* getContext.
EmojiRenderer == Rasterizer(FALSE, TRUE, FALSE)

\* Identifiers under which animations are played.
AnimationIds == {"a", "b"}

RECURSIVE SumTo(_, _)
\* frames.reduce((sum, frame) => sum + frame.duration, 0) over the first n
\* frames, each frame given by its duration.
SumTo(frames, n) == IF n = 0 THEN 0 ELSE SumTo(frames, n - 1) + frames[n]

\* createAnimation(frames, {loop})
createAnimation(frames, loop) ==
  [frames |-> frames, loop |-> loop, totalDuration |-> SumTo(frames, Len(frames))]

\* The animator after construction, with the frame requests it has
\* outstanding at the browser and the number of times each onComplete
\* callback has been invoked. animationFrameId 0 is null.
createEmojiAnimator(emojiRenderer) ==
  [emojiRenderer     |-> emojiRenderer,
   activeAnimations  |-> << >>,
   animationFrameId  |-> 0,
   frameRequests     |-> {},
   onCompleteCalls   |-> [id \in AnimationIds |-> 0]]

\* animationFrameId = requestAnimationFrame(animationLoop): the browser
\* returns an identifier no outstanding request has, and none that the
\* animator still holds.
requestAnimationFrame(a) ==
  LET used == a.frameRequests \cup {a.animationFrameId}
      id   == CHOOSE n \in 1..(Cardinality(used) + 1) :
                n \notin used /\ \A k \in 1..(n - 1) : k \in used
  IN [a EXCEPT !.frameRequests = @ \cup {id}, !.animationFrameId = id]

\* cancelAnimationFrame(animationFrameId): nothing happens for null and for
\* the identifier of a request that has already been served.
cancelAnimationFrame(a) == [a EXCEPT !.frameRequests = @ \ {a.animationFrameId}]

\* activeAnimations.has(id), and the position of id in the Map's order.
has(a, id) == \E i \in 1..Len(a.activeAnimations) : a.activeAnimations[i].id = id
indexOf(a, id) == CHOOSE i \in 1..Len(a.activeAnimations) : a.activeAnimations[i].id = id

\* playAnimation(id, animation, x, y, size, options, onComplete) at time now:
\* Map.set keeps the position of a key that is already there.
playAnimation(a, id, animation, onComplete, now) ==
  LET state == [id |-> id, animation |-> animation, onComplete |-> onComplete,
                startTime |-> now, startIsNumber |-> TRUE,
                elapsedTime |-> 0, elapsedIsNumber |-> FALSE,
                currentFrameIndex |-> 0, isPlaying |-> TRUE]
      set == IF has(a, id)
             THEN [a EXCEPT !.activeAnimations[indexOf(a, id)] = state]
             ELSE [a EXCEPT !.activeAnimations = Append(@, state)]
  IN IF set.animationFrameId = 0 THEN requestAnimationFrame(set) ELSE set

\* stopAnimation(id)
stopAnimation(a, id) ==
  IF ~has(a, id) THEN a
  ELSE LET deleted == [a EXCEPT !.activeAnimations = SelectSeq(@, LAMBDA e : e.id # id)]
       IN IF Len(deleted.activeAnimations) = 0
          THEN [cancelAnimationFrame(deleted) EXCEPT !.animationFrameId = 0]
          ELSE deleted

\* stopAllAnimations()
stopAllAnimations(a) ==
  LET cleared == [a EXCEPT !.activeAnimations = << >>]
  IN IF cleared.animationFrameId # 0
     THEN [cancelAnimationFrame(cleared) EXCEPT !.animationFrameId = 0]
     ELSE cleared

\* pauseAnimation(id)
pauseAnimation(a, id) ==
  IF ~has(a, id) THEN a
  ELSE [a EXCEPT !.activeAnimations[indexOf(a, id)].isPlaying = FALSE]

\* resumeAnimation(id) at time now: startTime = Date.now() - elapsedTime,
\* which is NaN while the loop has stored no elapsedTime.
resumeAnimation(a, id, now) ==
  IF ~has(a, id) THEN a
  ELSE LET i == indexOf(a, id)
           e == a.activeAnimations[i]
           resumed == [a EXCEPT !.activeAnimations[i] =
                          [e EXCEPT !.isPlaying = TRUE,
                                    !.startTime = IF e.elapsedIsNumber THEN now - e.elapsedTime ELSE 0,
                                    !.startIsNumber = e.elapsedIsNumber]]
       IN IF resumed.animationFrameId = 0 THEN requestAnimationFrame(resumed) ELSE resumed

\* The frame the loop finds for an animation state at currentTime: the
\* first frame i with frameTime + frame.duration > elapsedTime, counted from
\* 1; 0 when there is none (currentFrame === null). Every comparison with a
\* NaN elapsedTime is false.
currentFrame(e, currentTime) ==
  LET elapsedTime == currentTime - e.startTime
      found == {i \in 1..Len(e.animation.frames) :
                  e.startIsNumber /\ SumTo(e.animation.frames, i) > elapsedTime}
  IN IF found = {} THEN 0 ELSE CHOOSE i \in found : \A j \in found : i <= j

RECURSIVE loopFrom(_, _, _)
\* The for-of of animationLoop from the i-th entry of the Map on; the field
\* `threw` is set when an exception has ended the loop. Deleting
\* the entry under the iterator moves the next one to its place; an entry
\* set by an onComplete callback is appended and visited in the same pass.
\* The callbacks: "none" is no function, "notify" does nothing but be
\* called, "replay" calls playAnimation with the same id and animation.
loopFrom(a, i, currentTime) ==
  IF a.threw \/ i > Len(a.activeAnimations) THEN a
  ELSE
    LET e == a.activeAnimations[i]
        f == currentFrame(e, currentTime)
    IN IF ~e.isPlaying
       THEN loopFrom([a EXCEPT !.activeAnimations[i].elapsedTime =
                                  IF e.startIsNumber THEN currentTime - e.startTime ELSE 0,
                               !.activeAnimations[i].elapsedIsNumber = e.startIsNumber],
                     i + 1, currentTime)
       ELSE IF f = 0 /\ ~e.animation.loop
       THEN LET stopped == stopAnimation(a, e.id)
                called  == IF e.onComplete = "none" THEN stopped
                           ELSE [stopped EXCEPT !.onCompleteCalls[e.id] = @ + 1]
                after   == IF e.onComplete = "replay"
                           THEN playAnimation(called, e.id, e.animation, "none", currentTime)
                           ELSE called
            IN loopFrom(after, i, currentTime)
       ELSE LET shown == [a EXCEPT
                            !.activeAnimations[i].startTime =
                               IF f = 0 THEN currentTime ELSE e.startTime,
                            !.activeAnimations[i].startIsNumber =
                               IF f = 0 THEN TRUE ELSE e.startIsNumber,
                            !.activeAnimations[i].currentFrameIndex =
                               IF f = 0 THEN 0 ELSE f - 1]
            IN IF ~a.emojiRenderer.getContext
               THEN [shown EXCEPT !.threw = TRUE]
               ELSE loopFrom(shown, i + 1, currentTime)

\* animationLoop() run for the frame request r at currentTime: the request is
\* served, the entries are processed, and a new frame is requested while
\* animations remain. renderAnimationFrame calls emojiRenderer.getContext();
\* without that method it throws and the loop ends where it stands.
animationLoop(a, r, currentTime) ==
  LET served == [emojiRenderer     |-> a.emojiRenderer,
                 activeAnimations  |-> a.activeAnimations,
                 animationFrameId  |-> a.animationFrameId,
                 frameRequests     |-> a.frameRequests \ {r},
                 onCompleteCalls   |-> a.onCompleteCalls,
                 threw             |-> FALSE]
      done   == loopFrom(served, 1, currentTime)
      next   == IF done.threw THEN done
                ELSE IF Len(done.activeAnimations) > 0 THEN requestAnimationFrame(done)
                ELSE [done EXCEPT !.animationFrameId = 0]
  IN [emojiRenderer     |-> next.emojiRenderer,
      activeAnimations  |-> next.activeAnimations,
      animationFrameId  |-> next.animationFrameId,
      frameRequests     |-> next.frameRequests,
      onCompleteCalls   |-> next.onCompleteCalls]

\* Whether that run of animationLoop ends by an exception.
animationLoopThrows(a, r, currentTime) ==
  loopFrom([emojiRenderer     |-> a.emojiRenderer,
            activeAnimations  |-> a.activeAnimations,
            animationFrameId  |-> a.animationFrameId,
            frameRequests     |-> a.frameRequests \ {r},
            onCompleteCalls   |-> a.onCompleteCalls,
            threw             |-> FALSE], 1, currentTime).threw

----------------------------------------------------------------------------
(* Records offered to importData                                           *)

\* A record written by hand (or by another tool): every layer entry of
\* `types` carries the literal cells `grid` (when hasCells) and names only
\* the property `visible`; the record names only the map property `name`.
Record(w, h, cs, types, hasCells, grid) ==
  [present       |-> TRUE,
   width         |-> w,
   height        |-> h,
   cellSize      |-> cs,
   hasProperties |-> TRUE,
   properties    |-> [name |-> "Imported"],
   hasLayers     |-> TRUE,
   layers        |-> [t \in types |->
                       [hasCells      |-> hasCells,
                        alias         |-> FALSE,
                        cells         |-> grid,
                        hasProperties |-> TRUE,
                        properties    |-> [visible |-> FALSE]]]]

\* importData(null).
NullRecord == [Record(0, 0, 0, {}, FALSE, << >>) EXCEPT !.present = FALSE]

\* A dense grid with one hole, at (0, 0).
HoleGrid ==
  [y \in 1..MaxDim |-> [x \in 1..MaxDim |-> IF x = 1 /\ y = 1 THEN UNDEFINED ELSE "b"]]

\* The width and height of the records: the squares, the widest and the
\* tallest.
RecordDims == {<<d, d>> : d \in Dims} \cup {<<MaxDim, 1>>, <<1, MaxDim>>}

\* Records with positive width, height and cellSize: five layers with a dense
\* grid that is smaller or larger than the record says, five layers with a
\* sparse grid, a record for one layer and an unknown kind, and a record whose
\* only layer entry has no cells.
GoodRecords ==
  {Record(d[1], d[2], MaxCellSize, LayerTypes, TRUE, NewCells(c, c, "b")) :
     d \in RecordDims, c \in {1, MaxDim}}
  \cup {Record(d[1], d[2], MaxCellSize, LayerTypes, TRUE, HoleGrid) : d \in RecordDims}
  \cup {Record(d[1], d[2], MaxCellSize, {"collision", "fog"}, TRUE,
                NewCells(MaxDim, MaxDim, "b")) : d \in RecordDims}
  \cup {Record(d[1], d[2], MaxCellSize, {"collision"}, FALSE, << >>) : d \in RecordDims}

\* Records the guard rejects.
RejectedRecords ==
  {NullRecord,
   Record(0, 1, 1, LayerTypes, TRUE, NewCells(1, 1, "b")),
   Record(1, 0, 1, LayerTypes, TRUE, NewCells(1, 1, "b")),
   Record(1, 1, 0, LayerTypes, TRUE, NewCells(1, 1, "b")),
   [Record(1, 1, 1, {}, FALSE, << >>) EXCEPT !.hasLayers = FALSE]}

\* Records with a negative dimension: truthy for the guard.
NegativeRecords ==
  {Record(0 - 1, 1, 1, LayerTypes, TRUE, NewCells(1, 1, "b")),
   Record(1, 0 - 1, 1, LayerTypes, TRUE, NewCells(1, 1, "b"))}

----------------------------------------------------------------------------
(* The emoji composer                                                      *)

\* createCompositionLayer(emoji, {zIndex}): of a layer's fields the model
\* keeps the emoji and the stacking order.
createCompositionLayer(emoji, zIndex) == [emoji |-> emoji, zIndex |-> zIndex]

\* layers.sort((a, b) => a.zIndex - b.zIndex) that leaves the array as it is.
sortKeepsOrder(layers) == layers

\* [...layers].sort((a, b) => a.zIndex - b.zIndex): Array.prototype.sort is
\* stable, so a layer goes behind the layers of the same or a lower zIndex
\* that precede it.
RECURSIVE sortByZIndex(_)
sortByZIndex(layers) ==
  IF Len(layers) = 0
  THEN <<>>
  ELSE LET front == sortByZIndex(SubSeq(layers, 1, Len(layers) - 1))
           l     == layers[Len(layers)]
           k     == Cardinality({i \in 1..Len(front) : front[i].zIndex <= l.zIndex})
       IN SubSeq(front, 1, k) \o <<l>> \o SubSeq(front, k + 1, Len(front))

\* createEmojiComposition(layers, {name})
createEmojiComposition(layers, name) ==
  [layers |-> sortByZIndex(layers), name |-> name]

\* createEmojiComposer(emojiRenderer): `compositions` is the Map, kept as the
\* sequence of its entries in insertion order.
createEmojiComposer == [compositions |-> <<>>]

\* The position of the key `id` in the Map, 0 when it is not a key.
compositionIndex(c, id) ==
  LET at == {i \in 1..Len(c.compositions) : c.compositions[i].id = id}
  IN IF at = {} THEN 0 ELSE CHOOSE i \in at : TRUE

\* compositions.has(id)
hasComposition(c, id) == compositionIndex(c, id) # 0

\* compositions.set(id, composition): a key the Map already has keeps its
\* position, a new key goes last.
compositionsSet(c, id, composition) ==
  LET e == [id |-> id, composition |-> composition]
  IN [c EXCEPT !.compositions =
        IF hasComposition(c, id)
        THEN [@ EXCEPT ![compositionIndex(c, id)] = e]
        ELSE Append(@, e)]

\* No composition: the null that the composer returns for an unknown id.
NoComposition == [layers |-> <<>>, name |-> "null"]

\* getComposition(id)
getComposition(c, id) ==
  IF hasComposition(c, id)
  THEN c.compositions[compositionIndex(c, id)].composition
  ELSE NoComposition

\* createComposition(id, layers, {name}); `generated` is the identifier
\* comp_<Date.now()>_<random> that is used when id is null ("").
createComposition(c, id, generated, layers, name) ==
  LET compositionId == IF id # "" THEN id ELSE generated
  IN compositionsSet(c, compositionId, createEmojiComposition(layers, name))

\* updateComposition(id, updates): updates is {layers} when hasLayers and
\* {name} otherwise.
updateComposition(c, id, updates) ==
  IF ~hasComposition(c, id)
  THEN c
  ELSE LET composition == getComposition(c, id)
           updated == IF updates.hasLayers
                      THEN [composition EXCEPT !.layers = sortByZIndex(updates.layers)]
                      ELSE [composition EXCEPT !.name = updates.name]
       IN compositionsSet(c, id, updated)

LayersUpdate(layers) == [hasLayers |-> TRUE, layers |-> layers, name |-> ""]
NameUpdate(name) == [hasLayers |-> FALSE, layers |-> <<>>, name |-> name]

\* addLayer(compositionId, layer)
addLayer(c, compositionId, l) ==
  IF ~hasComposition(c, compositionId)
  THEN c
  ELSE LET composition == getComposition(c, compositionId)
           updatedLayers == sortByZIndex(Append(composition.layers, l))
       IN updateComposition(c, compositionId, LayersUpdate(updatedLayers))

\* updateLayer(compositionId, layerIndex, {zIndex}) returns null
updateLayerRejects(c, compositionId, layerIndex) ==
  \/ ~hasComposition(c, compositionId)
  \/ layerIndex < 0
  \/ layerIndex >= Len(getComposition(c, compositionId).layers)

\* updateLayer(compositionId, layerIndex, {zIndex}); layerIndex counts from 0.
updateLayer(c, compositionId, layerIndex, zIndex) ==
  IF updateLayerRejects(c, compositionId, layerIndex)
  THEN c
  ELSE LET composition == getComposition(c, compositionId)
           updatedLayers == [composition.layers EXCEPT ![layerIndex + 1].zIndex = zIndex]
       IN updateComposition(c, compositionId, LayersUpdate(sortByZIndex(updatedLayers)))

\* removeLayer(compositionId, layerIndex)
removeLayer(c, compositionId, layerIndex) ==
  IF updateLayerRejects(c, compositionId, layerIndex)
  THEN c
  ELSE LET composition == getComposition(c, compositionId)
           updatedLayers == SubSeq(composition.layers, 1, layerIndex)
                              \o SubSeq(composition.layers, layerIndex + 2, Len(composition.layers))
       IN updateComposition(c, compositionId, LayersUpdate(updatedLayers))

\* importComposition(id, data) of a record that has an array of layers, each
\* with a zIndex; `generated` is imported_<Date.now()>.
importComposition(c, id, generated, d) ==
  LET compositionId == IF id # "" THEN id ELSE generated
      composition == [layers |-> sortByZIndex([i \in 1..Len(d.layers) |->
                                   createCompositionLayer(d.layers[i].emoji, d.layers[i].zIndex)]),
                      name |-> d.name]
  IN compositionsSet(c, compositionId, composition)

\* listCompositions(): the identifiers, in the order of the Map's entries.
listCompositions(c) == [i \in 1..Len(c.compositions) |-> c.compositions[i].id]

\* createEmojiComposerUI(options): its composer, the composition being
\* edited ("" is null) and the selected layer.  options.initialComposition,
\* when given, is imported and made current.
createEmojiComposerUI(hasInitial, generated, initialComposition) ==
  LET composer == IF hasInitial
                  THEN importComposition(createEmojiComposer, "", generated, initialComposition)
                  ELSE createEmojiComposer
  IN [composer |-> composer,
      currentCompositionId |-> IF hasInitial THEN listCompositions(composer)[1] ELSE "",
      selectedLayerIndex |-> IF hasInitial /\ Len(initialComposition.layers) > 0 THEN 0 ELSE 0 - 1]

\* ui.createNewComposition(name): the composition is created under a
\* generated identifier and the first listed composition becomes current.
createNewComposition(u, generated, name) ==
  LET composer == createComposition(u.composer, "", generated, <<>>, name)
  IN [composer |-> composer,
      currentCompositionId |-> listCompositions(composer)[1],
      selectedLayerIndex |-> 0 - 1]

\* ui.setComposition(compositionId)
setComposition(u, compositionId) ==
  IF hasComposition(u.composer, compositionId)
  THEN [u EXCEPT !.currentCompositionId = compositionId, !.selectedLayerIndex = 0 - 1]
  ELSE u

\* A click on 'Add Layer'
addLayerClick(u, generated) ==
  LET newLayer == createCompositionLayer("e", 0)
  IN IF u.currentCompositionId # ""
     THEN IF hasComposition(u.composer, u.currentCompositionId)
          THEN LET composer == addLayer(u.composer, u.currentCompositionId, newLayer)
               IN [u EXCEPT !.composer = composer,
                            !.selectedLayerIndex =
                               Len(getComposition(composer, u.currentCompositionId).layers) - 1]
          ELSE u
     ELSE LET composer == createComposition(u.composer, "", generated, <<newLayer>>, "New Composition")
          IN [composer |-> composer,
              currentCompositionId |-> listCompositions(composer)[1],
              selectedLayerIndex |-> 0]

----------------------------------------------------------------------------
(* The emoji picker                                                        *)

\* The default of options.recentCount.
DefaultRecentCount == 20

\* createEmojiPicker(options): config.recentCount is options.recentCount || 20
\* (recentCount is 0 when the option is missing), and recentEmojis is the
\* list found in localStorage under emoji_picker_recents.
createEmojiPicker(recentCount, stored) ==
  [recentCount  |-> IF recentCount # 0 THEN recentCount ELSE DefaultRecentCount,
   recentEmojis |-> stored,
   stored       |-> stored]

\* addToRecents(emoji) that does not remove the emoji from the list first.
addToRecentsKeepsOld(p, emoji) ==
  LET unshifted == <<emoji>> \o p.recentEmojis
      recentEmojis == IF Len(unshifted) > p.recentCount
                      THEN SubSeq(unshifted, 1, p.recentCount)
                      ELSE unshifted
  IN [p EXCEPT !.recentEmojis = recentEmojis, !.stored = recentEmojis]

\* addToRecents(emoji): filter the emoji out, unshift it, slice to
\* recentCount, save to localStorage.
addToRecents(p, emoji) ==
  LET filtered == SelectSeq(p.recentEmojis, LAMBDA x : x # emoji)
      unshifted == <<emoji>> \o filtered
      recentEmojis == IF Len(unshifted) > p.recentCount
                      THEN SubSeq(unshifted, 1, p.recentCount)
                      ELSE unshifted
  IN [p EXCEPT !.recentEmojis = recentEmojis, !.stored = recentEmojis]

\* selectEmoji(emoji): the emoji goes to the recents, then to onEmojiSelect.
selectEmoji(p, emoji) == addToRecents(p, emoji)

----------------------------------------------------------------------------
(* State                                                                   *)

VARIABLES
  map,     \* the GridMap M
  rec,     \* the record last returned by M.exportData() (NullRecord: none yet)
  data,    \* the record last passed to importData
  target,  \* the GridMap T of the round trip, after T.importData(M.exportData())
  last,    \* the last operation on M: its name, arguments and result
  ops,     \* number of operations applied so far
  layer,   \* a stand-alone Layer
  llast,   \* the last operation on the stand-alone Layer
  gridRenderer,  \* the GridRenderer that draws M (NoGridRenderer: none yet)
  animator,      \* the animator: its closure state and its frame requests
  clock,         \* Date.now()
  alast,         \* the last operation on the animator
  composerUI,    \* the composer UI: its composer, current composition, selected layer
  picker,        \* the emoji picker: its recentCount and its recent emojis
  ulast          \* the last operation on the composer, its UI or the picker

\* What the operations of the GridMap and of the Layer never touch.
uiVars == <<composerUI, picker, ulast>>
auxVars == <<gridRenderer, animator, clock, alast, uiVars>>

\* What the operations of the animator never touch.
gridVars == <<map, rec, data, target, last, layer, llast, gridRenderer, uiVars>>

\* What the operations of the composer and of the picker never touch.
restVars == <<map, rec, data, target, last, layer, llast, gridRenderer, animator, clock, alast>>

AOp(op, id, ret) == [op |-> op, id |-> id, ret |-> ret]
UOp(op, id, ret, arg) == [op |-> op, id |-> id, ret |-> ret, arg |-> arg]

vars == <<map, rec, data, target, last, ops, layer, llast, auxVars>>
mapVars == <<map, rec, data, target, last, auxVars>>
layerVars == <<layer, llast, auxVars>>

\* A GridRenderer built over a rasterizer that has both methods, and an
\* animator that plays nothing.
IdleUI ==
  /\ composerUI = createEmojiComposerUI(FALSE, "", [layers |-> <<>>, name |-> ""])
  /\ picker = createEmojiPicker(0, <<>>)
  /\ ulast = UOp("create", "", "object", "")

IdleAnimator ==
  /\ animator = createEmojiAnimator(ExternalRasterizer)
  /\ clock = 0
  /\ alast = AOp("create", "", "object")
  /\ IdleUI

Idle ==
  /\ gridRenderer = createGridRenderer(ExternalRasterizer)
  /\ IdleAnimator

Op(op, ret, t, x, y, m) == [op |-> op, ret |-> ret, t |-> t, x |-> x, y |-> y, m |-> m]

LOp(op, ret, x, y, x1, y1, m) ==
  [op |-> op, ret |-> ret, x |-> x, y |-> y, x1 |-> x1, y1 |-> y1, m |-> m]

Init ==
  /\ \E w \in Dims, h \in Dims : map = createGridMap(w, h, 1)
  /\ rec = NullRecord
  /\ data = NullRecord
  /\ target = createGridMap(1, 1, 1)
  /\ last = Op("create", "void", "", 0, 0, "")
  /\ ops = 0
  /\ layer = createGridLayer(1, 1, "background", EMPTY)
  /\ llast = LOp("create", "void", 0, 0, 0, 0, "")
  /\ Idle

\* M is edited until the round trip has been made.
CanAct == ops < MaxOps /\ last.op # "roundTrip"

----------------------------------------------------------------------------
(* Operations on the GridMap M                                             *)

\* M.getLayer(t).setCell(x, y, m)
SetCell(t, x, y, m) ==
  /\ CanAct
  /\ map' = [map EXCEPT !.layers[t] = setCell(@, x, y, m)]
  /\ last' = Op("setCell", IF setCellRet(map.layers[t], x, y) THEN "true" ELSE "false",
                t, x, y, m)
  /\ ops' = ops + 1
  /\ UNCHANGED <<rec, data, target, layerVars>>

\* M.getLayer(t).fillRect(x0, y0, x1, y1, m)
FillRect(t, x0, y0, x1, y1, m) ==
  /\ CanAct
  /\ map' = [map EXCEPT !.layers[t] = fillRect(@, x0, y0, x1, y1, m)]
  /\ last' = Op("fillRect", "void", t, x0, x1, m)
  /\ ops' = ops + 1
  /\ UNCHANGED <<rec, data, target, layerVars>>

\* M.getLayer(t).clear()
Clear(t) ==
  /\ CanAct
  /\ map' = [map EXCEPT !.layers[t] = clear(@)]
  /\ last' = Op("clear", "void", t, 0, 0, "")
  /\ ops' = ops + 1
  /\ UNCHANGED <<rec, data, target, layerVars>>

\* M.getLayer(t).setProperty("visible", b)
SetLayerProperty(t, b) ==
  /\ CanAct
  /\ map' = [map EXCEPT !.layers[t].properties = setProperty(@, "visible", b)]
  /\ last' = Op("layer.setProperty", "void", t, 0, 0, "")
  /\ ops' = ops + 1
  /\ UNCHANGED <<rec, data, target, layerVars>>

\* M.setProperty("showGrid", b)
SetMapProperty(b) ==
  /\ CanAct
  /\ map' = [map EXCEPT !.properties = setProperty(@, "showGrid", b)]
  /\ last' = Op("setProperty", "void", "", 0, 0, "")
  /\ ops' = ops + 1
  /\ UNCHANGED <<rec, data, target, layerVars>>

\* M.resize(w, h): throws before touching anything when w or h is not positive.
Resize(w, h) ==
  /\ CanAct
  /\ map' = IF resizeThrows(w, h) THEN map ELSE mapResize(map, w, h)
  /\ last' = Op("resize", IF resizeThrows(w, h) THEN "throw" ELSE "void", "", w, h, "")
  /\ ops' = ops + 1
  /\ UNCHANGED <<rec, data, target, layerVars>>

\* rec = M.exportData()
Export ==
  /\ CanAct
  /\ rec' = exportData(map)
  /\ last' = Op("exportData", "void", "", 0, 0, "")
  /\ ops' = ops + 1
  /\ UNCHANGED <<map, data, target, layerVars>>

\* M.importData(d) for a record that shares nothing with M
ImportRecord(d) ==
  /\ CanAct
  /\ data' = d
  /\ map' = importData(map, d, map.layers, FALSE)
  /\ last' = Op("importData", importRet(map, d), "", 0, 0, "")
  /\ ops' = ops + 1
  /\ UNCHANGED <<rec, target, layerVars>>

\* M.importData(rec) for the record M exported earlier
ImportExported ==
  /\ CanAct
  /\ rec.present
  /\ data' = rec
  /\ map' = importData(map, rec, map.layers, TRUE)
  /\ last' = Op("importData", importRet(map, rec), "", 0, 0, "")
  /\ ops' = ops + 1
  /\ UNCHANGED <<rec, target, layerVars>>

\* T = createGridMap(tw, th, tcs); T.importData(M.exportData())
\* The largest cellSize is never M's before an import.
RoundTrip(tw, th, tcs) ==
  /\ CanAct
  /\ rec' = exportData(map)
  /\ data' = exportData(map)
  /\ target' = importData(createGridMap(tw, th, tcs), exportData(map), map.layers, FALSE)
  /\ last' = Op("roundTrip", importRet(createGridMap(tw, th, tcs), exportData(map)),
                "", tw, th, "")
  /\ ops' = ops + 1
  /\ UNCHANGED <<map, layerVars>>

\* The arguments tried for resize: every size, and a zero on either side.
ResizeArgs == (Dims \X Dims) \cup {<<0, 1>>, <<1, 0>>}

Edit ==
  \/ \E x \in 0..(MaxDim - 1), y \in 0..(MaxDim - 1), m \in Markers :
       SetCell("collision", x, y, m)
  \/ \E c \in {<<0 - 1, 0>>, <<MaxDim, MaxDim - 1>>} : FillRect("sprite", c[1], c[1], c[2], c[2], "a")
  \/ Clear("background")
  \/ \E b \in BOOLEAN : SetLayerProperty("collision", b)
  \/ \E b \in BOOLEAN : SetMapProperty(b)
  \/ \E a \in ResizeArgs : Resize(a[1], a[2])
  \/ Export
  \/ \E tw \in Dims, th \in Dims : RoundTrip(tw, th, MaxCellSize)

Import ==
  \/ \E d \in GoodRecords \cup RejectedRecords \cup NegativeRecords : ImportRecord(d)
  \/ ImportExported

Next == Edit \/ Import

\* Every operation of the GridMap.
Spec == Init /\ [][Next]_vars

\* The GridMap without importData into M: edits, resize, export, round trip.
SpecEdit == Init /\ [][Edit]_vars

----------------------------------------------------------------------------
(* Operations on a stand-alone Layer                                       *)

InitLayer ==
  /\ map = createGridMap(1, 1, 1)
  /\ rec = NullRecord
  /\ data = NullRecord
  /\ target = createGridMap(1, 1, 1)
  /\ last = Op("create", "void", "", 0, 0, "")
  /\ ops = 0
  /\ \E w \in Dims, h \in Dims, t \in {"background", "collision"} :
       layer = createGridLayer(w, h, t,
                 IF t = "background" THEN DefaultBackgroundEmoji ELSE EMPTY)
  /\ llast = LOp("create", "void", 0, 0, 0, 0, "")
  /\ Idle

\* layer.setCell(x, y, m)
LayerSetCell(x, y, m) ==
  /\ ops < MaxOps
  /\ ops' = ops + 1
  /\ layer' = setCell(layer, x, y, m)
  /\ llast' = LOp("setCell", IF setCellRet(layer, x, y) THEN "true" ELSE "false",
                  x, y, 0, 0, m)
  /\ UNCHANGED mapVars

\* layer.fillRect(x0, y0, x1, y1, m)
LayerFillRect(x0, y0, x1, y1, m) ==
  /\ ops < MaxOps
  /\ ops' = ops + 1
  /\ layer' = fillRect(layer, x0, y0, x1, y1, m)
  /\ llast' = LOp("fillRect", "void", x0, y0, x1, y1, m)
  /\ UNCHANGED mapVars

\* layer.clear()
LayerClear ==
  /\ ops < MaxOps
  /\ ops' = ops + 1
  /\ layer' = clear(layer)
  /\ llast' = LOp("clear", "void", 0, 0, 0, 0, "")
  /\ UNCHANGED mapVars

\* layer.setProperty("visible", b)
LayerSetProperty(b) ==
  /\ ops < MaxOps
  /\ ops' = ops + 1
  /\ layer' = [layer EXCEPT !.properties = setProperty(@, "visible", b)]
  /\ llast' = LOp("setProperty", "void", 0, 0, 0, 0, "")
  /\ UNCHANGED mapVars

\* layer.resize(w, h): throws, changing nothing, when w or h is not positive.
LayerResize(w, h) ==
  /\ ops < MaxOps
  /\ ops' = ops + 1
  /\ layer' = IF resizeThrows(w, h) THEN layer ELSE layerResize(layer, w, h)
  /\ llast' = LOp("resize", IF resizeThrows(w, h) THEN "throw" ELSE "void", w, h, 0, 0, "")
  /\ UNCHANGED mapVars

NextLayer ==
  \/ \E x \in Coords, y \in Coords, m \in Markers : LayerSetCell(x, y, m)
  \/ \E x0 \in Coords, y0 \in Coords, c1 \in {0, MaxDim} :
       LayerFillRect(x0, y0, c1, c1, "a")
  \/ LayerClear
  \/ \E b \in BOOLEAN : LayerSetProperty(b)
  \/ \E a \in ResizeArgs : LayerResize(a[1], a[2])

\* A Layer on its own, under every sequence of its operations.
SpecLayer == InitLayer /\ [][NextLayer]_vars

----------------------------------------------------------------------------
(* Reading a stand-alone Layer                                             *)

\* layer.getCell(x, y): returns a marker and assigns nothing.
LayerGetCell(x, y) ==
  /\ llast' = LOp("getCell", getCell(layer, x, y), x, y, 0, 0, "")
  /\ UNCHANGED <<layer, ops, mapVars>>

\* The sizes tried by the readers' resizes: the smallest, the widest and the
\* largest.
ReadSizes == {<<1, 1>>, <<MaxDim, 1>>, <<MaxDim, MaxDim>>}

NextRead ==
  \/ \E x \in 0..(MaxDim - 1) : LayerSetCell(x, 0, "a")
  \/ \E a \in ReadSizes : LayerResize(a[1], a[2])
  \/ \E x \in Probe, y \in Probe : LayerGetCell(x, y)

\* A Layer that is read, at every coordinate, between its edits and resizes.
SpecRead == InitLayer /\ [][NextRead]_vars

----------------------------------------------------------------------------
(* Reading the GridMap M: camera, coordinate conversion, getCellContent    *)
(* and the GridRenderer                                                    *)

\* The record of a reading call: its name, its arguments and what it gave.
VOp(op, x, y, out) == [op |-> op, ret |-> "void", x |-> x, y |-> y, out |-> out]

\* A call that threw and returned nothing.
Thrown(op, x, y) == [op |-> op, ret |-> "throw", x |-> x, y |-> y, out |-> << >>]

InitView ==
  /\ \E a \in ReadSizes, cs \in {1, MaxCellSize} : map = createGridMap(a[1], a[2], cs)
  /\ rec = NullRecord
  /\ data = NullRecord
  /\ target = createGridMap(1, 1, 1)
  /\ last = Op("create", "void", "", 0, 0, "")
  /\ ops = 0
  /\ layer = createGridLayer(1, 1, "background", EMPTY)
  /\ llast = LOp("create", "void", 0, 0, 0, 0, "")
  /\ Idle

\* M.setCamera(x, y)
SetCamera(x, y) ==
  /\ CanAct
  /\ map' = setCamera(map, x, y)
  /\ last' = Op("setCamera", "void", "", x, y, "")
  /\ ops' = ops + 1
  /\ UNCHANGED <<rec, data, target, layerVars>>

\* M.gridToScreen(gx, gy), and M.screenToGrid of the position it returned
Convert(gx, gy) ==
  /\ last' = VOp("screenToGrid", gx, gy,
                 screenToGrid(map, gridToScreen(map, gx, gy)[1], gridToScreen(map, gx, gy)[2]))
  /\ UNCHANGED <<map, rec, data, target, ops, layerVars>>

\* M.getCellContent(x, y)
GetCellContent(x, y) ==
  /\ last' = VOp("getCellContent", x, y, getCellContent(map, x, y))
  /\ UNCHANGED <<map, rec, data, target, ops, layerVars>>

\* renderer.renderGridMap(M, 0, 0, emojiSize) on a canvas of v[1] x v[2]
\* pixels
RenderGridMap(v) ==
  /\ gridRenderer.built
  /\ map' = IF renderThrows(gridRenderer) THEN map ELSE renderGridMap(map, v[1], v[2]).map
  /\ last' = IF renderThrows(gridRenderer)
             THEN Thrown("renderGridMap", v[1], v[2])
             ELSE VOp("renderGridMap", v[1], v[2], renderGridMap(map, v[1], v[2]))
  /\ UNCHANGED <<rec, data, target, ops, layerVars>>

\* renderer.renderHighlightedCell(M, x, y, emojiSize)
RenderHighlightedCell(x, y) ==
  /\ gridRenderer.built
  /\ map' = IF renderHighlightedCellThrows(gridRenderer, map, x, y)
            THEN map
            ELSE renderHighlightedCell(map, x, y).map
  /\ last' = IF renderHighlightedCellThrows(gridRenderer, map, x, y)
             THEN Thrown("renderHighlightedCell", x, y)
             ELSE VOp("renderHighlightedCell", x, y, renderHighlightedCell(map, x, y))
  /\ UNCHANGED <<rec, data, target, ops, layerVars>>

\* renderer.renderSelectionRect(M, x, y, 0, 0)
RenderSelectionRect(x, y) ==
  /\ gridRenderer.built
  /\ map' = IF renderThrows(gridRenderer) THEN map ELSE renderSelectionRect(map, x, y, 0, 0).map
  /\ last' = IF renderThrows(gridRenderer)
             THEN Thrown("renderSelectionRect", x, y)
             ELSE VOp("renderSelectionRect", x, y, renderSelectionRect(map, x, y, 0, 0))
  /\ UNCHANGED <<rec, data, target, ops, layerVars>>

\* Records that change the cellSize and fill two layers they hide.
ViewRecords ==
  {Record(d, d, MaxCellSize, {"collision", "event"}, TRUE, NewCells(MaxDim, MaxDim, "b")) :
     d \in {1, MaxDim}}

\* Camera offsets: left of the map, inside the first cell of a wide cell
\* size, and one widest cell in.
Cameras == {0 - 1, 1, MaxCellSize}

\* Canvas sizes: one pixel, a canvas that holds the largest map at the
\* largest cell size, and a wide one-pixel strip.
Viewports ==
  {<<1, 1>>, <<MaxDim * MaxCellSize, MaxDim * MaxCellSize>>, <<MaxDim * MaxCellSize, 1>>}

\* Cells asked of the readers: a row through the map from one cell left of
\* it to one cell right of its largest width, and a cell above and below.
ViewCells == {<<x, 0>> : x \in (0 - 1)..MaxDim} \cup {<<0, 0 - 1>>, <<MaxDim - 1, MaxDim - 1>>}

ViewEdit ==
  \/ \E c \in {<<x, 0>> : x \in 0..(MaxDim - 1)} \cup {<<MaxDim - 1, MaxDim - 1>>} :
       SetCell("collision", c[1], c[2], "a")
  \/ SetLayerProperty("background", FALSE)
  \/ SetLayerProperty("event", TRUE)
  \/ \E a \in ReadSizes : Resize(a[1], a[2])
  \/ \E c \in Cameras : SetCamera(c, c)
  \/ SetCamera(1, 0)
  \/ \E d \in ViewRecords : ImportRecord(d)

ViewRead ==
  \/ \E c \in {<<0 - 1, 0 - 1>>, <<0, MaxDim>>, <<MaxDim, 0>>} : Convert(c[1], c[2])
  \/ \E c \in ViewCells : GetCellContent(c[1], c[2])
  \/ \E v \in Viewports : RenderGridMap(v)
  \/ \E c \in ViewCells : RenderHighlightedCell(c[1], c[2])
  \/ \E c \in {<<0 - 1, MaxDim>>} : RenderSelectionRect(c[1], c[2])

NextView == ViewEdit \/ ViewRead

\* The GridMap under edits, resize, camera moves and importData, read after
\* every one of them by the renderer and by the queries.
SpecView == InitView /\ [][NextView]_vars

----------------------------------------------------------------------------
(* Queries of the GridMap                                                  *)

QOp(op, ret, t, out) == [op |-> op, ret |-> ret, t |-> t, x |-> 0, y |-> 0, out |-> out]

\* M.moveCamera(dx, dy)
MoveCamera(dx, dy) ==
  /\ CanAct
  /\ map' = moveCamera(map, dx, dy)
  /\ last' = Op("moveCamera", "void", "", dx, dy, "")
  /\ ops' = ops + 1
  /\ UNCHANGED <<rec, data, target, layerVars>>

\* M.getCamera()
GetCamera ==
  /\ last' = QOp("getCamera", "object", "", getCamera(map))
  /\ UNCHANGED <<map, rec, data, target, ops, layerVars>>

\* M.getLayer(type)
GetLayer(type) ==
  /\ last' = IF getLayerThrows(map, type)
             THEN QOp("getLayer", "throw", type, <<>>)
             ELSE QOp("getLayer", "object", type, getLayer(map, type))
  /\ UNCHANGED <<map, rec, data, target, ops, layerVars>>

\* M.getAllLayers()
GetAllLayers ==
  /\ last' = QOp("getAllLayers", "object", "", getAllLayers(map))
  /\ UNCHANGED <<map, rec, data, target, ops, layerVars>>

\* M.snapToGrid(sx, sy) of a screen position given in half pixels
SnapToGrid(screenX2, screenY2) ==
  /\ last' = [op |-> "snapToGrid",
              ret |-> IF snapToGridThrows(map, screenX2, screenY2) THEN "throw" ELSE "object",
              t |-> "", x |-> screenX2, y |-> screenY2,
              out |-> snapToGrid(map, screenX2, screenY2)]
  /\ UNCHANGED <<map, rec, data, target, ops, layerVars>>

\* Screen positions, in half pixels: left of the origin, the origin, inside.
ScreenPoints == {0 - 3, 0, 3}

\* Kinds asked of getLayer: the five, a name no object has, and the names
\* every object inherits.
AskedKinds == LayerTypes \cup {"fog"} \cup ObjectPrototypeKeys

\* Camera moves: up and left by one pixel, right by the widest map.
Deltas == {<<0 - 1, 0 - 1>>, <<MaxDim * MaxCellSize, 0>>}

NextQuery ==
  \/ \E x \in 0..(MaxDim - 1) : SetCell("collision", x, 0, "a")
  \/ \E a \in ReadSizes : Resize(a[1], a[2])
  \/ \E c \in Cameras : SetCamera(c, c)
  \/ \E d \in Deltas : MoveCamera(d[1], d[2])
  \/ \E d \in ViewRecords : ImportRecord(d)
  \/ GetCamera
  \/ \E t \in AskedKinds : GetLayer(t)
  \/ GetAllLayers
  \/ \E p \in ScreenPoints : SnapToGrid(p, 0 - p)

\* The GridMap under edits, resize, camera moves and importData, asked for
\* its camera and its layers after every one of them.
SpecQuery == InitView /\ [][NextQuery]_vars

----------------------------------------------------------------------------
(* Construction of the GridRenderer                                        *)

\* A GridMap of every size, and no GridRenderer yet.
InitRenderer ==
  /\ \E a \in ReadSizes, cs \in {1, MaxCellSize} : map = createGridMap(a[1], a[2], cs)
  /\ rec = NullRecord
  /\ data = NullRecord
  /\ target = createGridMap(1, 1, 1)
  /\ last = Op("create", "void", "", 0, 0, "")
  /\ ops = 0
  /\ layer = createGridLayer(1, 1, "background", EMPTY)
  /\ llast = LOp("create", "void", 0, 0, 0, 0, "")
  /\ gridRenderer = NoGridRenderer
  /\ IdleAnimator

\* createGridRenderer(r), assigned to the renderer when it returns.
CreateGridRenderer(r) ==
  /\ gridRenderer' = IF createGridRendererThrows(r) THEN gridRenderer ELSE createGridRenderer(r)
  /\ last' = QOp("createGridRenderer",
                 IF createGridRendererThrows(r) THEN "throw" ELSE "object", "", r)
  /\ UNCHANGED <<map, rec, data, target, ops, layer, llast, animator, clock, alast, uiVars>>

NextRenderer ==
  \/ \E r \in Rasterizers : CreateGridRenderer(r)
  \/ \E x \in 0..(MaxDim - 1) : SetCell("collision", x, 0, "a")
  \/ \E a \in ReadSizes : Resize(a[1], a[2])
  \/ \E c \in Cameras : SetCamera(c, c)
  \/ \E d \in ViewRecords : ImportRecord(d)
  \/ \E v \in Viewports : RenderGridMap(v)
  \/ \E c \in ViewCells : RenderHighlightedCell(c[1], c[2])
  \/ \E c \in {<<0 - 1, MaxDim>>} : RenderSelectionRect(c[1], c[2])

\* A GridRenderer is constructed over every kind of rasterizer and, once
\* constructed, draws the map between its edits.
SpecRenderer == InitRenderer /\ [][NextRenderer]_vars

----------------------------------------------------------------------------
(* The animator                                                            *)

\* Latest time the clock is let run to.
MaxTime == 3

\* An animator over a rasterizer with getContext, or over the object that
\* createEmojiRenderer returns.
InitAnimator ==
  /\ map = createGridMap(1, 1, 1)
  /\ rec = NullRecord
  /\ data = NullRecord
  /\ target = createGridMap(1, 1, 1)
  /\ last = Op("create", "void", "", 0, 0, "")
  /\ ops = 0
  /\ layer = createGridLayer(1, 1, "background", EMPTY)
  /\ llast = LOp("create", "void", 0, 0, 0, 0, "")
  /\ gridRenderer = createGridRenderer(ExternalRasterizer)
  /\ \E r \in {ExternalRasterizer, EmojiRenderer} : animator = createEmojiAnimator(r)
  /\ clock = 0
  /\ alast = AOp("create", "", "object")
  /\ IdleUI

\* animator.playAnimation(id, animation, x, y, size, {}, onComplete)
PlayAnimation(id, animation, onComplete) ==
  /\ ops < MaxOps
  /\ ops' = ops + 1
  /\ animator' = playAnimation(animator, id, animation, onComplete, clock)
  /\ alast' = AOp("playAnimation", id, id)
  /\ UNCHANGED <<clock, gridVars>>

\* animator.stopAnimation(id)
StopAnimation(id) ==
  /\ ops < MaxOps
  /\ ops' = ops + 1
  /\ animator' = stopAnimation(animator, id)
  /\ alast' = AOp("stopAnimation", id, IF has(animator, id) THEN "true" ELSE "false")
  /\ UNCHANGED <<clock, gridVars>>

\* animator.stopAllAnimations()
StopAllAnimations ==
  /\ ops < MaxOps
  /\ ops' = ops + 1
  /\ animator' = stopAllAnimations(animator)
  /\ alast' = AOp("stopAllAnimations", "", "void")
  /\ UNCHANGED <<clock, gridVars>>

\* animator.pauseAnimation(id)
PauseAnimation(id) ==
  /\ ops < MaxOps
  /\ ops' = ops + 1
  /\ animator' = pauseAnimation(animator, id)
  /\ alast' = AOp("pauseAnimation", id, IF has(animator, id) THEN "true" ELSE "false")
  /\ UNCHANGED <<clock, gridVars>>

\* animator.resumeAnimation(id)
ResumeAnimation(id) ==
  /\ ops < MaxOps
  /\ ops' = ops + 1
  /\ animator' = resumeAnimation(animator, id, clock)
  /\ alast' = AOp("resumeAnimation", id, IF has(animator, id) THEN "true" ELSE "false")
  /\ UNCHANGED <<clock, gridVars>>

\* A unit of time passes.
Tick ==
  /\ clock < MaxTime
  /\ clock' = clock + 1
  /\ alast' = AOp("tick", "", "void")
  /\ UNCHANGED <<animator, ops, gridVars>>

\* The browser serves the frame request r: animationLoop runs to its end,
\* with every onComplete callback it makes.
AnimationLoop(r) ==
  /\ r \in animator.frameRequests
  /\ animator' = animationLoop(animator, r, clock)
  /\ alast' = AOp("animationLoop", "",
                  IF animationLoopThrows(animator, r, clock) THEN "throw" ELSE "void")
  /\ UNCHANGED <<clock, ops, gridVars>>

\* Animations played: one frame, two frames, and one frame looping.
Animations ==
  {createAnimation(<<1>>, FALSE), createAnimation(<<1, 1>>, FALSE), createAnimation(<<1>>, TRUE)}

\* onComplete arguments: null, a function that only returns, and a function
\* that plays the animation again.
Callbacks == {"none", "notify", "replay"}

NextAnimator ==
  \/ \E id \in AnimationIds, an \in Animations, cb \in Callbacks : PlayAnimation(id, an, cb)
  \/ \E id \in AnimationIds : StopAnimation(id)
  \/ StopAllAnimations
  \/ \E id \in AnimationIds : PauseAnimation(id)
  \/ \E id \in AnimationIds : ResumeAnimation(id)
  \/ Tick
  \/ \E r \in animator.frameRequests : AnimationLoop(r)

\* The animator under every interleaving of its operations, of the clock
\* and of the frame callbacks.
SpecAnimator == InitAnimator /\ [][NextAnimator]_vars

\* Animation "a" is played and left alone; "b" is played, paused, resumed
\* and stopped beside it.
NextPlay ==
  \/ \E id \in AnimationIds, an \in Animations, cb \in Callbacks : PlayAnimation(id, an, cb)
  \/ StopAnimation("b")
  \/ PauseAnimation("b")
  \/ ResumeAnimation("b")
  \/ Tick
  \/ \E r \in animator.frameRequests : AnimationLoop(r)

\* The animator while one of its animations is never paused or stopped.
SpecPlay == InitAnimator /\ [][NextPlay]_vars

----------------------------------------------------------------------------
(* Argument guards of construction and resize                              *)

\* createGridMap(w, h, cs), assigned to M when it returns.
CreateGridMap(w, h, cs) ==
  /\ CanAct
  /\ map' = IF createGridMapThrows(w, h, cs) THEN map ELSE createGridMap(w, h, cs)
  /\ last' = [op |-> "createGridMap",
              ret |-> IF createGridMapThrows(w, h, cs) THEN "InvalidDimension" ELSE "object",
              t |-> "", x |-> w, y |-> h, m |-> "", cs |-> cs]
  /\ ops' = ops + 1
  /\ UNCHANGED <<rec, data, target, layerVars>>

\* createGridLayer(w, h, type), assigned to the stand-alone layer when it
\* returns.
CreateGridLayer(w, h, type) ==
  /\ ops < MaxOps
  /\ ops' = ops + 1
  /\ layer' = IF createGridLayerError(w, h, type) = "none"
              THEN createGridLayer(w, h, type, EMPTY)
              ELSE layer
  /\ llast' = LOp("createGridLayer",
                  IF createGridLayerError(w, h, type) = "none"
                  THEN "object" ELSE createGridLayerError(w, h, type),
                  w, h, 0, 0, type)
  /\ UNCHANGED mapVars

\* A GridMap and a stand-alone Layer of every size.
InitGuard ==
  /\ \E a \in ReadSizes : map = createGridMap(a[1], a[2], 1)
  /\ rec = NullRecord
  /\ data = NullRecord
  /\ target = createGridMap(1, 1, 1)
  /\ last = Op("create", "void", "", 0, 0, "")
  /\ ops = 0
  /\ \E a \in ReadSizes : layer = createGridLayer(a[1], a[2], "background", DefaultBackgroundEmoji)
  /\ llast = LOp("create", "void", 0, 0, 0, 0, "")
  /\ Idle

\* Arguments that resize must reject: a zero or a negative number on either
\* side, and on both.
BadSizes == {<<0, 1>>, <<MaxDim, 0>>, <<0 - 1, MaxDim>>, <<1, 0 - 1>>, <<0, 0>>}

NextGuard ==
  \/ \E x \in 0..(MaxDim - 1) : SetCell("collision", x, 0, "a")
  \/ \E a \in ReadSizes \cup BadSizes : Resize(a[1], a[2])
  \/ \E x \in 0..(MaxDim - 1) : LayerSetCell(x, 0, "a")
  \/ \E a \in ReadSizes \cup BadSizes : LayerResize(a[1], a[2])
  \/ \E a \in {<<MaxDim, 1>>, <<0, 1>>, <<1, 0 - 1>>}, cs \in {0 - 1, 0, MaxCellSize} :
       CreateGridMap(a[1], a[2], cs)
  \/ \E a \in {<<1, 1>>, <<MaxDim, MaxDim>>, <<0, 1>>, <<1, 0 - 1>>},
        t \in {"collision", "fog", "constructor"} :
       CreateGridLayer(a[1], a[2], t)

\* A GridMap and a Layer that are constructed, edited and resized with good
\* and bad arguments.
SpecGuard == InitGuard /\ [][NextGuard]_vars

----------------------------------------------------------------------------
(* The composer and its UI under edits                                     *)

\* Layers handed to the composer: "a" above "b", then level.
LayerLists ==
  {<<>>,
   <<createCompositionLayer("a", 1), createCompositionLayer("b", 0)>>,
   <<createCompositionLayer("a", 0), createCompositionLayer("b", 0)>>}

\* Identifiers the caller chooses, and identifiers the composer generates.
ChosenIds == {"c1"}
GeneratedIds == {"comp_1", "comp_2"}
ImportedId == "imported_0"
KnownIds == ChosenIds \cup GeneratedIds \cup {ImportedId}

\* Records handed to importComposition.
CompositionRecords ==
  {[layers |-> ll, name |-> "saved"] : ll \in LayerLists \ {<<>>}}

\* A composer UI without an initial composition, or with one.
InitComposer ==
  /\ map = createGridMap(1, 1, 1)
  /\ rec = NullRecord
  /\ data = NullRecord
  /\ target = createGridMap(1, 1, 1)
  /\ last = Op("create", "void", "", 0, 0, "")
  /\ ops = 0
  /\ layer = createGridLayer(1, 1, "background", EMPTY)
  /\ llast = LOp("create", "void", 0, 0, 0, 0, "")
  /\ gridRenderer = createGridRenderer(ExternalRasterizer)
  /\ animator = createEmojiAnimator(ExternalRasterizer)
  /\ clock = 0
  /\ alast = AOp("create", "", "object")
  /\ \/ composerUI = createEmojiComposerUI(FALSE, ImportedId, [layers |-> <<>>, name |-> ""])
     \/ \E d \in CompositionRecords : composerUI = createEmojiComposerUI(TRUE, ImportedId, d)
  /\ picker = createEmojiPicker(0, <<>>)
  /\ ulast = UOp("create", "", "object", "")

\* ui.getComposer().createComposition(id, layers, {name: 'made'})
CreateComposition(id, generated, layers) ==
  /\ ops < MaxOps
  /\ ops' = ops + 1
  /\ composerUI' = [composerUI EXCEPT !.composer = createComposition(@, id, generated, layers, "made")]
  /\ ulast' = UOp("createComposition", IF id # "" THEN id ELSE generated, "object", "")
  /\ UNCHANGED <<picker, restVars>>

\* ui.getComposer().addLayer(id, layer)
AddLayer(id, l) ==
  /\ ops < MaxOps
  /\ ops' = ops + 1
  /\ composerUI' = [composerUI EXCEPT !.composer = addLayer(@, id, l)]
  /\ ulast' = UOp("addLayer", id,
                  IF hasComposition(composerUI.composer, id) THEN "object" ELSE "null", "")
  /\ UNCHANGED <<picker, restVars>>

\* ui.getComposer().updateLayer(id, layerIndex, {zIndex})
UpdateLayer(id, layerIndex, zIndex) ==
  /\ ops < MaxOps
  /\ ops' = ops + 1
  /\ composerUI' = [composerUI EXCEPT !.composer = updateLayer(@, id, layerIndex, zIndex)]
  /\ ulast' = UOp("updateLayer", id,
                  IF updateLayerRejects(composerUI.composer, id, layerIndex) THEN "null" ELSE "object",
                  "")
  /\ UNCHANGED <<picker, restVars>>

\* ui.getComposer().removeLayer(id, layerIndex)
RemoveLayer(id, layerIndex) ==
  /\ ops < MaxOps
  /\ ops' = ops + 1
  /\ composerUI' = [composerUI EXCEPT !.composer = removeLayer(@, id, layerIndex)]
  /\ ulast' = UOp("removeLayer", id,
                  IF updateLayerRejects(composerUI.composer, id, layerIndex) THEN "null" ELSE "object",
                  "")
  /\ UNCHANGED <<picker, restVars>>

\* ui.getComposer().updateComposition(id, updates)
UpdateComposition(id, updates) ==
  /\ ops < MaxOps
  /\ ops' = ops + 1
  /\ composerUI' = [composerUI EXCEPT !.composer = updateComposition(@, id, updates)]
  /\ ulast' = UOp("updateComposition", id,
                  IF hasComposition(composerUI.composer, id) THEN "object" ELSE "null", "")
  /\ UNCHANGED <<picker, restVars>>

\* ui.getComposer().importComposition(id, data)
ImportComposition(id, generated, d) ==
  /\ ops < MaxOps
  /\ ops' = ops + 1
  /\ composerUI' = [composerUI EXCEPT !.composer = importComposition(@, id, generated, d)]
  /\ ulast' = UOp("importComposition", IF id # "" THEN id ELSE generated, "object", "")
  /\ UNCHANGED <<picker, restVars>>

\* ui.createNewComposition(): returns currentCompositionId.
CreateNewComposition(generated) ==
  /\ ops < MaxOps
  /\ ops' = ops + 1
  /\ composerUI' = createNewComposition(composerUI, generated, "New Composition")
  /\ ulast' = UOp("createNewComposition", generated,
                  createNewComposition(composerUI, generated, "New Composition").currentCompositionId,
                  "")
  /\ UNCHANGED <<picker, restVars>>

\* ui.setComposition(id)
SetComposition(id) ==
  /\ ops < MaxOps
  /\ ops' = ops + 1
  /\ composerUI' = setComposition(composerUI, id)
  /\ ulast' = UOp("setComposition", id,
                  IF hasComposition(composerUI.composer, id) THEN "true" ELSE "false", "")
  /\ UNCHANGED <<picker, restVars>>

\* A click on 'Add Layer'; arg tells whether a composition was current.
AddLayerClick(generated) ==
  /\ ops < MaxOps
  /\ ops' = ops + 1
  /\ composerUI' = addLayerClick(composerUI, generated)
  /\ ulast' = UOp("addLayerClick",
                  IF composerUI.currentCompositionId # "" THEN composerUI.currentCompositionId ELSE generated,
                  "void",
                  IF composerUI.currentCompositionId # "" THEN "current" ELSE "none")
  /\ UNCHANGED <<picker, restVars>>

\* The stacking orders a layer is moved to: below and above every other.
ZIndexes == {0 - 1, 2}

NextComposer ==
  \/ \E id \in ChosenIds \cup {""}, g \in GeneratedIds, ll \in LayerLists : CreateComposition(id, g, ll)
  \/ \E id \in KnownIds, z \in ZIndexes : AddLayer(id, createCompositionLayer("c", z))
  \/ \E id \in KnownIds, i \in 0..1, z \in ZIndexes : UpdateLayer(id, i, z)
  \/ \E id \in KnownIds, i \in 0..1 : RemoveLayer(id, i)
  \/ \E id \in KnownIds, ll \in LayerLists : UpdateComposition(id, LayersUpdate(ll))
  \/ \E id \in KnownIds : UpdateComposition(id, NameUpdate("renamed"))
  \/ \E id \in ChosenIds \cup {""}, g \in GeneratedIds, d \in CompositionRecords : ImportComposition(id, g, d)
  \/ \E g \in GeneratedIds : CreateNewComposition(g)
  \/ \E id \in KnownIds : SetComposition(id)
  \/ \E g \in GeneratedIds : AddLayerClick(g)

\* The composer UI and its composer under every operation of both.
SpecComposer == InitComposer /\ [][NextComposer]_vars

----------------------------------------------------------------------------
(* The emoji picker under selections                                       *)

Emojis == {"a", "b", "c", "d"}

\* The lists an earlier picker can have saved: no emoji twice.
RECURSIVE Recents(_)
Recents(n) ==
  IF n = 0
  THEN {<<>>}
  ELSE Recents(n - 1)
         \cup {Append(s, x) : s \in {r \in Recents(n - 1) : Len(r) = n - 1},
                              x \in Emojis}
StoredRecents == {s \in Recents(3) : \A i, j \in 1..Len(s) : s[i] = s[j] => i = j}

\* options.recentCount: missing, or a positive number.
RecentCounts == {0, 1, 2, 3}

InitPicker ==
  /\ map = createGridMap(1, 1, 1)
  /\ rec = NullRecord
  /\ data = NullRecord
  /\ target = createGridMap(1, 1, 1)
  /\ last = Op("create", "void", "", 0, 0, "")
  /\ ops = 0
  /\ layer = createGridLayer(1, 1, "background", EMPTY)
  /\ llast = LOp("create", "void", 0, 0, 0, 0, "")
  /\ gridRenderer = createGridRenderer(ExternalRasterizer)
  /\ animator = createEmojiAnimator(ExternalRasterizer)
  /\ clock = 0
  /\ alast = AOp("create", "", "object")
  /\ composerUI = createEmojiComposerUI(FALSE, "", [layers |-> <<>>, name |-> ""])
  /\ \E n \in RecentCounts, s \in StoredRecents : picker = createEmojiPicker(n, s)
  /\ ulast = UOp("create", "", "object", "")

\* A click on an emoji: selectEmoji(emoji).  arg tells whether the emoji was
\* already in the list ("moved"), pushed the oldest out ("dropped") or was
\* added to a list with room ("added").
SelectEmoji(emoji) ==
  /\ picker' = selectEmoji(picker, emoji)
  /\ ulast' = UOp("selectEmoji", emoji, "void",
                  IF \E i \in 1..Len(picker.recentEmojis) : picker.recentEmojis[i] = emoji
                  THEN "moved"
                  ELSE IF Len(picker.recentEmojis) >= picker.recentCount THEN "dropped" ELSE "added")
  /\ UNCHANGED <<composerUI, ops, restVars>>

NextPicker == \E x \in Emojis : SelectEmoji(x)

\* A picker that starts from any saved list and takes any selections.
SpecPicker == InitPicker /\ [][NextPicker]_vars

----------------------------------------------------------------------------
(* Properties                                                              *)

\* The cell grid of layer l is exactly w columns by h rows.
HasShape(l, w, h) ==
  /\ l.width = w
  /\ l.height = h
  /\ Len(l.cells) = h
  /\ \A y \in 1..Len(l.cells) : Len(l.cells[y]) = w

\* The cells of record d's entry for layer kind t, as importData into M reads them.
DataCells(d, t) == RecordCells(d.layers[t], t, map.layers)

\* C1: round trip.  When M has been changed only by cell edits, fillRect,
\* clear and resize, T.importData(M.exportData()) on a fresh T of any size
\* returns true and T then has M's getCellContent at every coordinate.
C1_RoundTrip ==
  last.op = "roundTrip" =>
    /\ last.ret = "true"
    /\ \A x \in Probe, y \in Probe : getCellContent(target, x, y) = getCellContent(map, x, y)

\* A round trip of a widened M (default markers in its old columns, empty
\* ones in the new) into a T that was built at other dimensions than M's.
C1_Witness ==
  /\ last.op = "roundTrip"
  /\ last.ret = "true"
  /\ map.width > map.objWidth
  /\ target.objWidth # map.width
  /\ target.objHeight # map.height
  /\ getCell(target.layers["background"], 0, 0) = DefaultBackgroundEmoji
  /\ getCell(target.layers["background"], map.width - 1, 0) = EMPTY

\* C2 (as claimed): after every operation that returns, every layer has a
\* cell grid of exactly the map's current width x height, and the layer kinds
\* are exactly the five fixed ones.
C2_LayersShareDimensions ==
  last.ret # "throw" =>
    /\ DOMAIN map.layers = LayerTypes
    /\ \A t \in LayerTypes : HasShape(map.layers[t], map.width, map.height)

\* C3 (as claimed): an exported record is a deep snapshot; while the record
\* is kept, no operation on M changes the cells and properties it holds.
C3_ExportIsSnapshot ==
  [][(rec.present /\ rec' = rec) =>
       \A t \in LayerTypes :
         RecordCells(rec.layers[t], t, map'.layers) = RecordCells(rec.layers[t], t, map.layers)]_vars

\* C4 (as claimed): after a successful importData the map has the record's
\* width, height and cellSize, every layer the record gives cells for is
\* exactly width x height, and reads the record's value at every in-bounds
\* cell the record defines.
C4_ImportAdoptsRecord ==
  (last.op = "importData" /\ last.ret = "true") =>
    /\ map.width = data.width
    /\ map.height = data.height
    /\ map.cellSize = data.cellSize
    /\ \A t \in importedTypes(map, data) :
         /\ HasShape(map.layers[t], data.width, data.height)
         /\ \A x \in 0..(data.width - 1), y \in 0..(data.height - 1) :
              SourceCell(DataCells(data, t), x, y) # UNDEFINED =>
                getCell(map.layers[t], x, y) = SourceCell(DataCells(data, t), x, y)

\* C5: importData merges, overwriting only what the record holds.  After a
\* successful import, a cell of an updated layer whose source cell is absent
\* or undefined reads what it read before, a layer the record has no entry
\* for is untouched, and a layer property the record does not name is kept.
C5_ImportMerges ==
  [][(last'.op = "importData" /\ last'.ret = "true") =>
       /\ \A t \in importedTypes(map, data') :
            /\ \A x \in Probe, y \in Probe :
                 (InBounds(map'.layers[t], x, y)
                    /\ SourceCell(RecordCells(data'.layers[t], t, map'.layers), x, y) = UNDEFINED)
                 => getCell(map'.layers[t], x, y) = getCell(map.layers[t], x, y)
            /\ \A k \in (DOMAIN map.layers[t].properties) \ (DOMAIN data'.layers[t].properties) :
                 map'.layers[t].properties[k] = map.layers[t].properties[k]
       /\ \A t \in LayerTypes \ (DOMAIN data'.layers) : map'.layers[t] = map.layers[t]]_vars

\* An import of a sparse record left the background's default marker at the
\* hole, wrote the record's marker next to it, and left a layer out.
C5_Witness ==
  /\ last.op = "importData"
  /\ last.ret = "true"
  /\ "background" \in importedTypes(map, data)
  /\ SourceCell(DataCells(data, "background"), 0, 0) = UNDEFINED
  /\ getCell(map.layers["background"], 0, 0) = DefaultBackgroundEmoji
  /\ getCell(map.layers["background"], 1, 0) = "b"
  /\ map.layers["background"].properties.name = "background"

\* C6: importData returns false, without throwing, and changes nothing when
\* the record is missing or lacks width, height, cellSize or layers.
C6_RejectedImport ==
  [][(last'.op = "importData"
        /\ (~data'.present \/ data'.width = 0 \/ data'.height = 0
              \/ data'.cellSize = 0 \/ ~data'.hasLayers))
     => (last'.ret = "false" /\ map' = map)]_vars

\* A record lacking one field was rejected by a map that had been changed.
C6_Witness ==
  /\ last.op = "importData"
  /\ last.ret = "false"
  /\ data.present
  /\ data.cellSize = 0
  /\ map.width # map.objWidth

\* C7: a layer resize to positive (w2, h2) keeps every cell of the overlap
\* with the old bounds, makes every other cell of the new bounds empty and
\* keeps nothing outside the new bounds.
C7_LayerResize ==
  [][(llast'.op = "resize" /\ llast'.ret = "void") =>
       /\ HasShape(layer', llast'.x, llast'.y)
       /\ \A x \in Probe, y \in Probe :
            getCell(layer', x, y) =
              IF x >= 0 /\ y >= 0 /\ x < Min(layer.width, llast'.x) /\ y < Min(layer.height, llast'.y)
              THEN getCell(layer, x, y)
              ELSE EMPTY]_vars

\* A background layer built at full size and filled with its default marker
\* was shrunk and grown again: the re-grown column reads empty.
C7_Witness ==
  /\ llast.op = "resize"
  /\ llast.ret = "void"
  /\ layer.objWidth = MaxDim
  /\ layer.width = MaxDim
  /\ getCell(layer, 0, 0) = DefaultBackgroundEmoji
  /\ getCell(layer, MaxDim - 1, 0) = EMPTY

\* C8 (as claimed): GridMap.resize to positive (w2, h2) sets the map's
\* dimensions to w2 x h2, keeps getCellContent in the overlap of the old and
\* new map bounds and makes newly exposed cells read empty on every layer.
C8_MapResize ==
  [][(last'.op = "resize" /\ last'.ret = "void" /\ map.width > 0 /\ map.height > 0) =>
       /\ map'.width = last'.x
       /\ map'.height = last'.y
       /\ \A x \in 0..(last'.x - 1), y \in 0..(last'.y - 1) :
            getCellContent(map', x, y) =
              IF x < map.width /\ y < map.height
              THEN getCellContent(map, x, y)
              ELSE [t \in LayerTypes |-> EMPTY]]_vars

\* C9: inside the layer's current bounds set(x, y, m) returns true, the next
\* get(x, y) returns m and no other cell changes.
C9_SetInBounds ==
  [][(llast'.op = "setCell"
        /\ llast'.x >= 0 /\ llast'.x < layer.width /\ llast'.y >= 0 /\ llast'.y < layer.height)
     => /\ llast'.ret = "true"
        /\ getCell(layer', llast'.x, llast'.y) = llast'.m
        /\ HasShape(layer', layer.width, layer.height)
        /\ \A x \in Probe, y \in Probe :
             (x # llast'.x \/ y # llast'.y) => getCell(layer', x, y) = getCell(layer, x, y)]_vars

\* A marker was set in a column the layer only has since it was resized.
C9_Witness ==
  /\ llast.op = "setCell"
  /\ llast.ret = "true"
  /\ llast.x >= layer.objWidth
  /\ llast.m = "a"
  /\ getCell(layer, llast.x, llast.y) = "a"

\* C10: outside the layer's current bounds set(x, y, m) returns false (it
\* does not throw) and leaves the cells and the dimensions as they were.
C10_SetOutOfBounds ==
  [][(llast'.op = "setCell"
        /\ ~(llast'.x >= 0 /\ llast'.x < layer.width /\ llast'.y >= 0 /\ llast'.y < layer.height))
     => /\ llast'.ret = "false"
        /\ layer'.cells = layer.cells
        /\ layer'.width = layer.width
        /\ layer'.height = layer.height]_vars

\* A set was refused in a column the layer had before it was shrunk.
C10_Witness ==
  /\ llast.op = "setCell"
  /\ llast.ret = "false"
  /\ llast.x >= layer.width
  /\ llast.x < layer.objWidth
  /\ llast.y = 0
  /\ llast.m = "a"

\* C11: get(x, y) with either coordinate outside the layer's current bounds
\* returns the empty marker and leaves the layer as it was, also at a
\* coordinate that was in bounds before a shrinking resize.
C11_GetOutOfBounds ==
  [][(llast'.op = "getCell"
        /\ ~(llast'.x >= 0 /\ llast'.x < layer.width /\ llast'.y >= 0 /\ llast'.y < layer.height))
     => (llast'.ret = EMPTY /\ layer' = layer)]_vars

\* A background layer built at full width, every cell holding a marker, was
\* shrunk and then read in its lost last column.
C11_Witness ==
  /\ llast.op = "getCell"
  /\ llast.ret = EMPTY
  /\ layer.type = "background"
  /\ layer.objWidth = MaxDim
  /\ layer.width < MaxDim
  /\ llast.x = MaxDim - 1
  /\ llast.y = 0

\* C12: after construction and after every set, fillRect, clear, setProperty
\* and resize, the layer's cells array has exactly `height` rows of exactly
\* `width` columns, for the layer's current width and height, and the
\* layer's kind never changes.
C12_LayerShape ==
  /\ []HasShape(layer, layer.width, layer.height)
  /\ [][layer'.type = layer.type]_vars

\* A layer resized to another width and height than it was built with, and
\* then filled, still has rows and columns for its current dimensions.
C12_Witness ==
  /\ llast.op = "fillRect"
  /\ layer.width # layer.objWidth
  /\ layer.height # layer.objHeight
  /\ layer.width # layer.height
  /\ Len(layer.cells) = layer.height
  /\ Len(layer.cells[1]) = layer.width

\* C13: fillRect(x0, y0, x1, y1, m) sets to m exactly the cells in the
\* intersection of the layer's current bounds with the rectangle
\* [min(x0,x1)..max(x0,x1)] x [min(y0,y1)..max(y0,y1)] and leaves every other
\* cell unchanged; giving the corners in another order gives the same
\* layer, and nothing changes when the intersection is empty.
C13_FillRect ==
  [][llast'.op = "fillRect" =>
       LET x0 == llast'.x
           y0 == llast'.y
           x1 == llast'.x1
           y1 == llast'.y1
           inRect(x, y) == /\ x >= Min(x0, x1) /\ x <= Max(x0, x1)
                           /\ y >= Min(y0, y1) /\ y <= Max(y0, y1)
       IN /\ layer'.width = layer.width
          /\ layer'.height = layer.height
          /\ layer'.cells =
               [y \in 1..layer.height |->
                 [x \in 1..layer.width |->
                   IF inRect(x - 1, y - 1) THEN llast'.m ELSE layer.cells[y][x]]]
          /\ layer' = fillRect(layer, x1, y1, x0, y0, llast'.m)
          /\ layer' = fillRect(layer, x1, y0, x0, y1, llast'.m)
          /\ (~ \E x \in 0..(layer.width - 1), y \in 0..(layer.height - 1) : inRect(x, y))
               => layer' = layer]_vars

\* Corners given right to left, one beyond the right edge and one above the
\* top edge: the top row of a full-size layer is filled and the bottom row is
\* left alone.
C13_Witness ==
  /\ llast.op = "fillRect"
  /\ llast.x = MaxDim
  /\ llast.x1 = 0
  /\ llast.y < 0
  /\ llast.y1 = 0
  /\ layer.width = MaxDim
  /\ layer.height = MaxDim
  /\ layer.type = "collision"
  /\ \A x \in 0..(MaxDim - 1) : getCell(layer, x, 0) = "a"
  /\ \A x \in 0..(MaxDim - 1) : getCell(layer, x, MaxDim - 1) = EMPTY

\* C14: for a positive integer cellSize, an integer camera offset and integer
\* grid coordinates, negative and outside the map included,
\* screenToGrid(gridToScreen(gx, gy)) = (gx, gy); also after importData has
\* changed the cellSize.
C14_CoordinateInverse ==
  map.cellSize > 0 =>
    /\ last.op = "screenToGrid" => last.out = <<last.x, last.y>>
    /\ \A gx \in Probe, gy \in Probe :
         screenToGrid(map, gridToScreen(map, gx, gy)[1], gridToScreen(map, gx, gy)[2])
           = <<gx, gy>>

\* A negative cell was converted there and back on a map whose camera is at
\* an odd offset and whose cellSize an import has changed.
C14_Witness ==
  /\ last.op = "screenToGrid"
  /\ last.x < 0
  /\ last.y < 0
  /\ last.out = <<last.x, last.y>>
  /\ map.cameraX = 1
  /\ map.cellSize = MaxCellSize
  /\ map.objCellSize = 1

\* The visible window of a vw x vh canvas over the map's current width,
\* height, cellSize and camera, as section 4.3 of the specification gives it.
InWindow(m, vw, vh, x, y) ==
  /\ x >= Max(0, floorDiv(m.cameraX, m.cellSize))
  /\ x <= Min(m.width - 1, ceilDiv(m.cameraX + vw, m.cellSize))
  /\ y >= Max(0, floorDiv(m.cameraY, m.cellSize))
  /\ y <= Min(m.height - 1, ceilDiv(m.cameraY + vh, m.cellSize))

\* C15 (as claimed): a full-map render reads and paints only cells of the
\* visible window computed from the map's current width, height and cellSize.
C15_RenderVisitsWindowOnly ==
  last.op = "renderGridMap" =>
    /\ \A c \in last.out.reads : InWindow(map, last.x, last.y, c[2], c[3])
    /\ \A i \in DOMAIN last.out.paints :
         InWindow(map, last.x, last.y, last.out.paints[i].x, last.out.paints[i].y)

\* C16 (as claimed): a full-map render issues exactly one paint call for
\* every visible layer and every cell inside the map's current bounds and
\* the visible window whose marker is not empty, at the position
\* gridToScreen gives for the cell.
C16_RenderPaintsEveryCell ==
  last.op = "renderGridMap" =>
    \A t \in LayerTypes, x \in 0..(map.width - 1), y \in 0..(map.height - 1) :
      (/\ map.layers[t].properties.visible = TRUE
       /\ InWindow(map, last.x, last.y, x, y)
       /\ getCell(map.layers[t], x, y) # EMPTY)
      => /\ Cardinality({i \in DOMAIN last.out.paints :
                           /\ last.out.paints[i].t = t
                           /\ last.out.paints[i].x = x
                           /\ last.out.paints[i].y = y}) = 1
         /\ \E i \in DOMAIN last.out.paints :
              last.out.paints[i] =
                [t |-> t, x |-> x, y |-> y, emoji |-> getCell(map.layers[t], x, y),
                 sx |-> gridToScreen(map, x, y)[1], sy |-> gridToScreen(map, x, y)[2]]

\* The position of a layer kind in the fixed paint order.
KindIndex(t) == CHOOSE i \in 1..Len(GRID_LAYER_TYPE) : GRID_LAYER_TYPE[i] = t

\* C17: in the paint calls of one full-map render all calls for BACKGROUND
\* come before all calls for COLLISION, then EVENT, SPRITE and INTERFACE, and
\* no call is issued for a layer that is not visible or for an empty marker.
C17_PaintOrder ==
  last.op = "renderGridMap" =>
    /\ \A i \in DOMAIN last.out.paints, j \in DOMAIN last.out.paints :
         i < j => KindIndex(last.out.paints[i].t) <= KindIndex(last.out.paints[j].t)
    /\ \A i \in DOMAIN last.out.paints :
         /\ map.layers[last.out.paints[i].t].properties.visible = TRUE
         /\ last.out.paints[i].emoji # EMPTY
         /\ last.out.paints[i].emoji =
              getCell(map.layers[last.out.paints[i].t], last.out.paints[i].x, last.out.paints[i].y)

\* A render painted the background and then the event layer, and issued no
\* call for the hidden collision layer that holds a marker at the same cell.
C17_Witness ==
  /\ last.op = "renderGridMap"
  /\ map.layers["collision"].properties.visible = FALSE
  /\ \E i \in DOMAIN last.out.paints, j \in DOMAIN last.out.paints :
       /\ i < j
       /\ last.out.paints[i].t = "background"
       /\ last.out.paints[j].t = "event"
       /\ last.out.paints[j].x = last.out.paints[i].x
       /\ last.out.paints[j].y = last.out.paints[i].y
       /\ getCell(map.layers["collision"], last.out.paints[i].x, last.out.paints[i].y) # EMPTY

\* C18 (as claimed): renderHighlightedCell issues fill and paint calls if
\* and only if the cell lies inside the map's current bounds.
C18_HighlightInBoundsOnly ==
  last.op = "renderHighlightedCell" =>
    ((last.out.fills > 0 \/ Len(last.out.paints) > 0)
       <=> (last.x >= 0 /\ last.x < map.width /\ last.y >= 0 /\ last.y < map.height))

\* C19: no render call changes the data model, so the frame of a call is
\* the frame the same call gives when made again.
C19_RenderIsPure ==
  [][last'.op \in {"renderGridMap", "renderHighlightedCell", "renderSelectionRect"} =>
       /\ map' = map
       /\ last'.out.map = map
       /\ last'.op = "renderGridMap" =>
            last'.out.paints = renderGridMap(map', last'.x, last'.y).paints
       /\ last'.op = "renderHighlightedCell" =>
            last'.out.paints = renderHighlightedCell(map', last'.x, last'.y).paints]_vars

\* A full-map render that painted something, of a map that was resized and
\* whose camera is off the origin.
C19_Witness ==
  /\ last.op = "renderGridMap"
  /\ Len(last.out.paints) > 0
  /\ map.cameraX # 0
  /\ map.width # map.objWidth

\* C20 (as claimed): getCellContent(x, y) has one entry for each of the five
\* layer kinds, each the layer's get(x, y); on a newly created map, after a
\* marker was set at (x, y) on the collision layer, it has that marker for
\* collision and the empty marker for every other kind.
C20_CellContent ==
  last.op = "getCellContent" =>
    /\ DOMAIN last.out = LayerTypes
    /\ \A t \in LayerTypes : last.out[t] = getCell(map.layers[t], last.x, last.y)
    /\ (\E w \in Dims, h \in Dims, cs \in 1..MaxCellSize :
          /\ last.x >= 0 /\ last.x < w /\ last.y >= 0 /\ last.y < h
          /\ map = [createGridMap(w, h, cs) EXCEPT
                      !.layers["collision"] = setCell(@, last.x, last.y, "a")])
       => last.out = [t \in LayerTypes |-> IF t = "collision" THEN "a" ELSE EMPTY]

----------------------------------------------------------------------------
\* C21: Layer.resize and GridMap.resize fail when either argument is zero or
\* negative, and the failed call leaves the layer, or the map and every one
\* of its layers, exactly as it was.
C21_FailedResize ==
  [][/\ (/\ ops' = ops + 1 /\ UNCHANGED layerVars
          /\ last'.op = "resize" /\ (last'.x <= 0 \/ last'.y <= 0))
        => (last'.ret = "throw" /\ map' = map)
     /\ (/\ ops' = ops + 1 /\ UNCHANGED mapVars
          /\ llast'.op = "resize" /\ (llast'.x <= 0 \/ llast'.y <= 0))
        => (llast'.ret = "throw" /\ layer' = layer)]_vars

\* A map was resized with a negative width and a stand-alone layer with a
\* zero height, and both calls failed.
C21_Witness ==
  /\ last.op = "resize" /\ last.ret = "throw" /\ last.x < 0
  /\ llast.op = "resize" /\ llast.ret = "throw" /\ llast.y = 0

\* C22: getLayer(kind) fails for every kind that is not one of the five layer
\* kinds, and for each of the five it succeeds and returns that layer, in
\* every reachable state.
C22_GetLayer ==
  last.op = "getLayer" =>
    IF last.t \in LayerTypes
    THEN last.ret = "object" /\ last.out = map.layers[last.t] /\ last.out.type = last.t
    ELSE last.ret = "throw"

\* C23: getAllLayers() returns exactly five layers, the map's own, in the
\* order BACKGROUND, COLLISION, EVENT, SPRITE, INTERFACE, which is the order
\* in which renderGridMap paints them.
C23_AllLayers ==
  last.op = "getAllLayers" =>
    /\ Len(last.out) = 5
    /\ [i \in 1..Len(last.out) |-> last.out[i].type]
         = <<"background", "collision", "event", "sprite", "gui">>
    /\ [i \in 1..Len(last.out) |-> last.out[i].type] = layerOrder
    /\ \A i \in 1..Len(last.out) : last.out[i] = map.layers[last.out[i].type]

\* The five layers were listed after the map had been resized and a record
\* imported into it.
C23_Witness ==
  /\ last.op = "getAllLayers"
  /\ data # NullRecord
  /\ map.width # map.objWidth

\* C24: setCamera makes getCamera return the given position and moveCamera
\* adds its deltas to it, with no clamping; resize, importData and cell edits
\* leave the camera unchanged, and the camera operations change nothing but
\* the camera.
C24_Camera ==
  [][/\ (ops' = ops + 1 /\ last'.op = "setCamera")
        => /\ getCamera(map') = [x |-> last'.x, y |-> last'.y]
           /\ map' = [map EXCEPT !.cameraX = map'.cameraX, !.cameraY = map'.cameraY]
     /\ (ops' = ops + 1 /\ last'.op = "moveCamera")
        => /\ getCamera(map') = [x |-> getCamera(map).x + last'.x,
                                  y |-> getCamera(map).y + last'.y]
           /\ map' = [map EXCEPT !.cameraX = map'.cameraX, !.cameraY = map'.cameraY]
     /\ (ops' = ops + 1 /\ last'.op \notin {"setCamera", "moveCamera"})
        => getCamera(map') = getCamera(map)
     /\ (ops' = ops /\ last'.op = "getCamera")
        => (last'.out = getCamera(map) /\ map' = map)]_vars

\* The camera was set left of and above the map and then moved further out,
\* and getCamera returned the position beyond the one that was set.
C24_Witness ==
  /\ last.op = "getCamera"
  /\ last.out.x < 0 - 1
  /\ last.out = getCamera(map)

\* C28: the width, height and cellSize fields of the GridMap object and the
\* width and height fields of each Layer object equal the current dimensions
\* and cell size, after any sequence of resize and importData.
C28_ExposedFields ==
  /\ map.objWidth = map.width
  /\ map.objHeight = map.height
  /\ map.objCellSize = map.cellSize
  /\ \A t \in LayerTypes :
       /\ map.layers[t].objWidth = map.layers[t].width
       /\ map.layers[t].objHeight = map.layers[t].height

\* C25: constructing a Layer fails with InvalidDimension when its width or
\* height is zero or negative and with InvalidLayerKind when its kind is not
\* one of the five; constructing a GridMap fails when its width, height or
\* cell size is zero or negative; a failed construction produces no object.
C25_FailedConstruction ==
  [][/\ (/\ ops' = ops + 1 /\ UNCHANGED mapVars /\ llast'.op = "createGridLayer")
        => /\ (llast'.x <= 0 \/ llast'.y <= 0)
                => (llast'.ret = "InvalidDimension" /\ layer' = layer)
           /\ (llast'.m \notin LayerTypes)
                => (llast'.ret # "object" /\ layer' = layer)
           /\ (llast'.x > 0 /\ llast'.y > 0 /\ llast'.m \notin LayerTypes)
                => llast'.ret = "InvalidLayerKind"
     /\ (/\ ops' = ops + 1 /\ UNCHANGED layerVars /\ last'.op = "createGridMap")
        => ((last'.x <= 0 \/ last'.y <= 0 \/ last'.cs <= 0)
              => (last'.ret = "InvalidDimension" /\ map' = map))]_vars

\* A GridMap of a good size and a cell size of zero was refused, and so was a
\* Layer of a good size and an unknown kind.
C25_Witness ==
  /\ last.op = "createGridMap" /\ last.ret = "InvalidDimension"
  /\ last.x > 0 /\ last.y > 0 /\ last.cs = 0
  /\ llast.op = "createGridLayer" /\ llast.ret = "InvalidLayerKind"

\* C26: clear() sets every cell inside the current bounds to the empty
\* marker, also after the layer was resized to a larger size, and leaves the
\* dimensions and the properties unchanged.
C26_Clear ==
  [][(ops' = ops + 1 /\ llast'.op = "clear")
       => layer' = [layer EXCEPT !.cells = NewCells(layer.width, layer.height, EMPTY)]]_vars

\* A background layer that had been resized to a larger width was cleared,
\* and every cell inside its new bounds is empty.
C26_Witness ==
  /\ llast.op = "clear"
  /\ layer.type = "background"
  /\ layer.width > layer.objWidth
  /\ \A x \in 0..(layer.width - 1), y \in 0..(layer.height - 1) : getCell(layer, x, y) = EMPTY

\* C27: a constructed GridRenderer never throws from renderGridMap,
\* renderHighlightedCell or renderSelectionRect, whatever the camera offset,
\* the coordinates or the resizes before; a rasterizer that lacks renderEmoji
\* or getContext is refused by createGridRenderer, so no renderer is ever
\* built over one.
C27_RendererNeverThrows ==
  /\ last.op \in {"renderGridMap", "renderHighlightedCell", "renderSelectionRect"}
       => last.ret = "void"
  /\ (/\ last.op = "createGridRenderer"
      /\ (last.out.isNull \/ ~last.out.renderEmoji \/ ~last.out.getContext))
       => last.ret = "throw"
  /\ gridRenderer.built
       => (gridRenderer.emojiRenderer.renderEmoji /\ gridRenderer.emojiRenderer.getContext)

\* The whole map was rendered, without a throw, with the camera left of and
\* above a map that had been resized.
C27_Witness ==
  /\ last.op = "renderGridMap"
  /\ last.ret = "void"
  /\ map.cameraX < 0
  /\ map.width # map.objWidth

\* C29: over a rasterizer that has getContext the animator has at most one
\* frame request outstanding, under every interleaving of playAnimation,
\* stopAnimation, stopAllAnimations, pauseAnimation, resumeAnimation, frame
\* callbacks and onComplete callbacks, and animationFrameId is null exactly
\* when no frame request is outstanding.
C29_OneFrameRequest ==
  animator.emojiRenderer.getContext =>
    /\ Cardinality(animator.frameRequests) <= 1
    /\ (animator.animationFrameId = 0) <=> (animator.frameRequests = {})

\* The animation state of "a" in the animator x, as a set: empty when "a"
\* is not active.
StateOfA(x) ==
  {x.activeAnimations[i] : i \in {j \in 1..Len(x.activeAnimations) :
                                    x.activeAnimations[j].id = "a"}}

\* C30: a non-looping animation that was played and never paused or stopped
\* is removed from the active set, and its onComplete callback invoked once,
\* by the first frame callback at which its total duration has elapsed; no
\* earlier callback removes it, a looping animation is never removed, and
\* nothing but the loop invokes onComplete.
C30_Completion ==
  [][/\ (alast'.op = "animationLoop" /\ animator' # animator)
        => \A e \in StateOfA(animator) :
             IF ~e.animation.loop /\ clock - e.startTime >= e.animation.totalDuration
             THEN /\ e \notin StateOfA(animator')
                  /\ animator'.onCompleteCalls["a"]
                       = animator.onCompleteCalls["a"] + (IF e.onComplete = "none" THEN 0 ELSE 1)
             ELSE /\ StateOfA(animator') # {}
                  /\ animator'.onCompleteCalls["a"] = animator.onCompleteCalls["a"]
     /\ (alast'.op # "animationLoop")
        => animator'.onCompleteCalls = animator.onCompleteCalls]_vars

\* The animation state of id in the animator x, as a set: empty when id is
\* not active.
StateOf(x, id) ==
  {x.activeAnimations[i] : i \in {j \in 1..Len(x.activeAnimations) :
                                    x.activeAnimations[j].id = id}}

\* The elapsed time from which id would continue if resumeAnimation(id) were
\* called on x at time now: whether it is a number, and the number.
ResumePosition(x, id, now) ==
  {<<e.startIsNumber, IF e.startIsNumber THEN now - e.startTime ELSE 0>> :
     e \in StateOf(resumeAnimation(x, id, now), id)}

\* C31: over a rasterizer that has getContext, an animation paused at
\* elapsed time e continues from e when it is
\* resumed, whether or not frame callbacks have run since, also when it is
\* resumed at once; while it is paused the loop neither draws it, nor
\* completes it, nor moves the position it will continue from.
C31_PauseHolds ==
  [][\A id \in AnimationIds : \A e \in StateOf(animator, id) :
       /\ (/\ alast'.op = "pauseAnimation" /\ alast'.id = id /\ ops' = ops + 1
           /\ animator.emojiRenderer.getContext
           /\ e.isPlaying /\ e.startIsNumber)
          => ResumePosition(animator', id, clock') = {<<TRUE, clock - e.startTime>>}
       /\ (/\ alast'.op \in {"animationLoop", "tick"}
           /\ animator.emojiRenderer.getContext
           /\ ~e.isPlaying)
          => /\ ResumePosition(animator', id, clock') = ResumePosition(animator, id, clock)
             /\ \E f \in StateOf(animator', id) :
                  ~f.isPlaying /\ f.currentFrameIndex = e.currentFrameIndex
             /\ animator'.onCompleteCalls[id] = animator.onCompleteCalls[id]]_vars

\* C32: stopAnimation(id) returns true exactly when id is active; a stopped
\* animation is out of the active set, so that no later frame callback draws
\* it or invokes its onComplete; and, over a rasterizer that has getContext,
\* whenever the active set is empty no frame request is outstanding and
\* animationFrameId is null.
C32_Stop ==
  /\ []((animator.emojiRenderer.getContext /\ Len(animator.activeAnimations) = 0)
          => (animator.frameRequests = {} /\ animator.animationFrameId = 0))
  /\ [][/\ (alast'.op = "stopAnimation" /\ ops' = ops + 1)
           => (/\ (alast'.ret = "true") <=> (StateOf(animator, alast'.id) # {})
               /\ StateOf(animator', alast'.id) = {})
        /\ (alast'.op = "stopAllAnimations" /\ ops' = ops + 1)
           => (Len(animator'.activeAnimations) = 0)
        /\ \A id \in AnimationIds :
             (animator'.onCompleteCalls[id] # animator.onCompleteCalls[id])
               => (alast'.op = "animationLoop" /\ StateOf(animator, id) # {})]_vars

\* C33: importData never leaves the map partially updated: it either returns
\* false with the map unchanged or returns true with every layer the record
\* carries at the record's dimensions; it does not throw.
C33_ImportAllOrNothing ==
  [][(last'.op = "importData" /\ ops' = ops + 1)
       => \/ (last'.ret = "false" /\ map' = map)
          \/ /\ last'.ret = "true"
             /\ \A t \in importedTypes(map, data') :
                  HasShape(map'.layers[t], data'.width, data'.height)]_vars

\* C34: snapToGrid(sx, sy) returns gridToScreen(screenToGrid(sx, sy)), the
\* centre of the cell that contains the position, without throwing, and
\* snapping the position it returned gives that position again.
C34_SnapToGrid ==
  last.op = "snapToGrid"
    => /\ last.ret = "object"
       /\ LET g == screenToGrid(map, last.x, last.y)
          IN last.out = gridToScreen(map, g[1], g[2])
       /\ snapToGrid(map, last.out[1], last.out[2]) = last.out

\* C35: the object createEmojiRenderer returns provides every capability the
\* GridRenderer invokes on its emoji renderer, renderEmoji and getContext, so
\* createGridRenderer over it returns a renderer, and that renderer draws.
C35_EmojiRendererSuffices ==
  /\ (last.op = "createGridRenderer" /\ last.out = EmojiRenderer)
       => (last.ret = "object" /\ gridRenderer = createGridRenderer(EmojiRenderer))
  /\ (gridRenderer.built /\ gridRenderer.emojiRenderer = EmojiRenderer)
       => ~renderThrows(gridRenderer)

\* C36: every composition the composer holds has its layers in non-decreasing
\* zIndex order, after createComposition, addLayer, updateLayer (with a new
\* zIndex), removeLayer, updateComposition and importComposition.
C36_LayersSorted ==
  \A i \in 1..Len(composerUI.composer.compositions) :
    LET layers == composerUI.composer.compositions[i].composition.layers
    IN \A j \in 1..Len(layers), k \in 1..Len(layers) :
         j < k => layers[j].zIndex <= layers[k].zIndex

\* updateLayer has raised the zIndex of the lower of two layers, "b", above
\* the other, and "b" is now the second layer.
C36_Witness ==
  /\ ulast.op = "updateLayer"
  /\ ulast.ret = "object"
  /\ getComposition(composerUI.composer, ulast.id).layers
       = <<createCompositionLayer("a", 1), createCompositionLayer("b", 2)>>

\* C37: after a selection in the picker the recently-used list has no emoji
\* twice and at most recentCount entries, the selected emoji is first, and
\* the rest is the list as it was, without that emoji, cut at the end.
C37_Recents ==
  [][(ulast'.op = "selectEmoji" /\ <<picker, ulast>>' # <<picker, ulast>>)
       => LET old == picker.recentEmojis
              new == picker'.recentEmojis
              others == SelectSeq(old, LAMBDA x : x # ulast'.id)
          IN /\ \A i, j \in 1..Len(new) : new[i] = new[j] => i = j
             /\ Len(new) <= picker.recentCount
             /\ Len(new) = IF Len(others) + 1 <= picker.recentCount
                           THEN Len(others) + 1 ELSE picker.recentCount
             /\ new[1] = ulast'.id
             /\ \A i \in 2..Len(new) : new[i] = others[i - 1]
             /\ picker'.stored = new
             /\ picker'.recentCount = picker.recentCount]_vars

\* An emoji further down a full list of three was selected again and is first.
C37_Witness ==
  /\ ulast.op = "selectEmoji"
  /\ ulast.arg = "moved"
  /\ picker.recentCount = 3
  /\ Len(picker.recentEmojis) = 3
  /\ picker.recentEmojis[1] = ulast.id

\* C38: createNewComposition() creates a composition, makes it current and
\* returns its id, also when the composer holds other compositions; the
\* first 'Add Layer' click without a current composition makes the
\* composition it has just created current.
C38_NewIsCurrent ==
  /\ ulast.op = "createNewComposition"
       => /\ ulast.ret = ulast.id
          /\ composerUI.currentCompositionId = ulast.id
          /\ getComposition(composerUI.composer, ulast.id)
               = createEmojiComposition(<<>>, "New Composition")
  /\ (ulast.op = "addLayerClick" /\ ulast.arg = "none")
       => /\ composerUI.currentCompositionId = ulast.id
          /\ getComposition(composerUI.composer, composerUI.currentCompositionId)
               = createEmojiComposition(<<createCompositionLayer("e", 0)>>, "New Composition")

====
